---- MODULE Spec2Model ----
(***************************************************************************)
(* M-Hike: the local persistence layer (lib/database.ts), the import and   *)
(* export codec (lib/storage.ts), the live-update provider                 *)
(* (contexts/DataContext.tsx) and the hike list screen (app/index.tsx).    *)
(*                                                                         *)
(* JavaScript and SQL values are tagged tuples, so that a value of one     *)
(* type is never confused with one of another: <<"str", s>> where s is a   *)
(* sequence of one-character strings, <<"num", n>>, <<"bool", b>>,         *)
(* <<"null">> (JS null and SQL NULL) and <<"undef">> (JS undefined).       *)
(***************************************************************************)
EXTENDS Integers, Sequences, FiniteSets, TLC

VARIABLES
    dbPromise,      \* module variable dbPromise: [st, h], st one of "null", "pending",
                    \* "resolved", "rejected", h the connection handle it stands for
    handles,        \* number of connections opened by SQLite.openDatabaseAsync
    schemaEnsured,  \* module variable schemaEnsured
    foreignKeys,    \* whether the opened connection enforces FOREIGN KEY clauses
    callPc,         \* position of each openDatabase call
    callStmts,      \* number of schema statements each openDatabase call has executed
    callRet,        \* the handle each openDatabase call returned (0: none)
    resetPc,        \* position of the deleteAllHikes call in progress
    hikes,          \* rows of table hikes
    observations,   \* rows of table observations
    hikeSeq,        \* AUTOINCREMENT sequence of table hikes
    obsSeq,         \* AUTOINCREMENT sequence of table observations
    faults,         \* storage faults the environment may still inject
    exported,       \* the last text exportHikeToJson wrote, and what was made of it
    updateTrigger,  \* DataProvider state updateTrigger
    contextHikes,   \* DataProvider state hikes
    refreshes,      \* the refreshHikes calls in flight, oldest first
    pendingEffects, \* the effects React has scheduled and not yet run
    filteredHikes,  \* HikeListScreen state filteredHikes
    isImporting,    \* HikeListScreen state isImporting
    searchQuery,    \* HikeListScreen state searchQuery
    searches,       \* the searchHikes calls of handleSearch in flight, oldest first
    bus,            \* events: the listeners of map:locationSelected, and the last emit
    imp,            \* the importHikeFromJson calls: position, decoded data, outcome
    last            \* the repository call that completed last, with its outcome

dbVars == <<hikes, observations, hikeSeq, obsSeq>>
connVars == <<dbPromise, handles, schemaEnsured, foreignKeys, callPc, callStmts, callRet>>
uiVars == <<updateTrigger, contextHikes, refreshes, pendingEffects, filteredHikes, isImporting,
            searchQuery, searches, bus>>
appVars == <<imp, exported, uiVars>>
vars == <<dbPromise, handles, schemaEnsured, foreignKeys, callPc, callStmts, callRet,
          resetPc, hikes, observations, hikeSeq, obsSeq, faults, last, imp, exported, uiVars>>

(***************************************************************************)
(* Bounds of the model.                                                    *)
(***************************************************************************)
MaxHikeSeq == 2
MaxObsSeq == 2
MaxCalls == 2
MaxFaults == 1
MaxTrigger == 2
MaxRefreshes == 2
MaxSearches == 2

(***************************************************************************)
(* Values.                                                                 *)
(***************************************************************************)
Str(s) == <<"str", s>>
Num(n) == <<"num", n>>
Bool(b) == <<"bool", b>>
Null == <<"null">>
Undef == <<"undef">>
\* an object a query returns, so that it compares with null
Object(fields) == <<"object", fields>>

IsStr(v) == v[1] = "str"
IsNum(v) == v[1] = "num"
IsBool(v) == v[1] = "bool"
Val(v) == v[2]

\* JavaScript truthiness: undefined, null, false, 0 and "" are falsy.
Truthy(v) ==
    CASE v[1] = "undef" -> FALSE
      [] v[1] = "null" -> FALSE
      [] v[1] = "bool" -> v[2]
      [] v[1] = "num" -> v[2] # 0
      [] v[1] = "str" -> v[2] # <<>>
      [] OTHER -> TRUE

\* x || null
OrNull(v) == IF Truthy(v) THEN v ELSE Null

\* x ? 1 : 0
OneOrZero(v) == IF Truthy(v) THEN Num(1) ELSE Num(0)

\* a value bound to a statement parameter: undefined is bound as NULL,
\* a boolean as 1 or 0
Bind(v) ==
    CASE v[1] = "undef" -> Null
      [] v[1] = "bool" -> (IF v[2] THEN Num(1) ELSE Num(0))
      [] OTHER -> v

(***************************************************************************)
(* Text.  A string is a sequence of one-character strings; Code gives the  *)
(* character code that decides SQLite's BINARY collation order.            *)
(***************************************************************************)
Code(c) ==
    CASE c = "%" -> 37
      [] c = "1" -> 49
      [] c = "2" -> 50
      [] c = "A" -> 65
      [] c = "B" -> 66
      [] c = "_" -> 95
      [] c = "a" -> 97
      [] c = "b" -> 98
      [] c = "{" -> 123
      [] c = "}" -> 125
      [] OTHER -> 0

\* ASCII lower-casing, as LIKE folds case
Lower(c) ==
    CASE c = "A" -> "a"
      [] c = "B" -> "b"
      [] OTHER -> c

RECURSIVE StrLess(_, _)
\* s sorts strictly before t in BINARY collation
StrLess(s, t) ==
    IF t = <<>> THEN FALSE
    ELSE IF s = <<>> THEN TRUE
    ELSE IF Code(Head(s)) # Code(Head(t)) THEN Code(Head(s)) < Code(Head(t))
    ELSE StrLess(Tail(s), Tail(t))

RECURSIVE Like(_, _)
\* SQLite's  str LIKE pat : % matches any run of characters, _ exactly one,
\* any other character itself, ASCII letters without regard to case
Like(pat, str) ==
    IF pat = <<>> THEN str = <<>>
    ELSE IF Head(pat) = "%"
         THEN \/ Like(Tail(pat), str)
              \/ (str # <<>> /\ Like(pat, Tail(str)))
    ELSE IF str = <<>> THEN FALSE
    ELSE IF Head(pat) = "_" THEN Like(Tail(pat), Tail(str))
    ELSE Lower(Head(pat)) = Lower(Head(str)) /\ Like(Tail(pat), Tail(str))

\* the template literal `%${q}%`
Wrap(q) == <<"%">> \o q \o <<"%">>

RECURSIVE SeqsOf(_)
\* every arrangement of the finite set S as a sequence
SeqsOf(S) ==
    IF S = {} THEN {<<>>}
    ELSE UNION {{<<x>> \o r : r \in SeqsOf(S \ {x})} : x \in S}

(***************************************************************************)
(* The database.  A row of hikes is a record of the fourteen columns, a    *)
(* row of observations one of the six columns of ensureSchema; the id is a *)
(* plain number, every other column a tagged value.                        *)
(***************************************************************************)
DB == [hikes |-> hikes, observations |-> observations,
       hikeSeq |-> hikeSeq, obsSeq |-> obsSeq, fk |-> foreignKeys]

Ok(d, res) == [d |-> d, ok |-> TRUE, res |-> res, err |-> ""]
Fail(d, err) == [d |-> d, ok |-> FALSE, res |-> Undef, err |-> err]

IoError == "disk I/O error"
NotNullError == "NOT NULL constraint failed"
ForeignKeyError == "FOREIGN KEY constraint failed"
HikeIdRequired == "Hike ID is required for update"
ObservationIdRequired == "Observation ID is required for update"

\* the parameter list of insertHike and updateHike, as stored
HikeColumns(hike) ==
    [name |-> Bind(hike.name),
     location |-> Bind(hike.location),
     date |-> Bind(hike.date),
     parkingAvailable |-> OneOrZero(hike.parkingAvailable),
     lengthKm |-> Bind(hike.lengthKm),
     difficulty |-> Bind(hike.difficulty),
     description |-> OrNull(hike.description),
     elevationGainM |-> OrNull(hike.elevationGainM),
     rating |-> OrNull(hike.rating),
     photoUri |-> OrNull(hike.photoUri),
     latitude |-> OrNull(hike.latitude),
     longitude |-> OrNull(hike.longitude),
     addedToCalendar |-> OneOrZero(hike.addedToCalendar)]

WithId(id, cols) == [c \in {"id"} \cup DOMAIN cols |-> IF c = "id" THEN id ELSE cols[c]]

\* the NOT NULL columns of table hikes
HikeNotNull(cols) ==
    /\ cols.name # Null /\ cols.location # Null /\ cols.date # Null
    /\ cols.lengthKm # Null /\ cols.difficulty # Null

\* the row mapping shared by getAllHikes, getHikeById, searchHikes,
\* advancedSearchHikes and findDuplicateHike
RowToHike(row) ==
    [id |-> Num(row.id),
     name |-> row.name,
     location |-> row.location,
     date |-> row.date,
     parkingAvailable |-> Bool(row.parkingAvailable = Num(1)),
     lengthKm |-> row.lengthKm,
     difficulty |-> row.difficulty,
     description |-> row.description,
     elevationGainM |-> row.elevationGainM,
     rating |-> row.rating,
     photoUri |-> row.photoUri,
     latitude |-> row.latitude,
     longitude |-> row.longitude,
     addedToCalendar |-> Bool(row.addedToCalendar = Num(1))]

RowToObservation(row) ==
    [id |-> Num(row.id),
     hikeId |-> row.hikeId,
     observation |-> row.observation,
     timestamp |-> row.timestamp,
     comments |-> row.comments,
     photoUri |-> row.photoUri]

\* an insert under the rowid of a table without AUTOINCREMENT: one more than
\* the largest id stored
insertHikeReusingIds(d, hike, fault) ==
    LET cols == HikeColumns(hike)
        ids == {r.id : r \in d.hikes}
        id == IF ids = {} THEN 1 ELSE (CHOOSE m \in ids : \A i \in ids : i <= m) + 1
    IN  IF fault THEN Fail(d, IoError)
        ELSE IF ~HikeNotNull(cols) THEN Fail(d, NotNullError)
        ELSE Ok([d EXCEPT !.hikes = @ \cup {WithId(id, cols)}, !.hikeSeq = id], Num(id))

\* an insert that refuses a hike whose name, location and date are stored
insertHikeUnlessStored(d, hike, fault) ==
    LET cols == HikeColumns(hike)
        id == d.hikeSeq + 1
    IN  IF fault THEN Fail(d, IoError)
        ELSE IF \E r \in d.hikes :
                    r.name = cols.name /\ r.location = cols.location /\ r.date = cols.date
        THEN Fail(d, "UNIQUE constraint failed")
        ELSE Ok([d EXCEPT !.hikes = @ \cup {WithId(id, cols)}, !.hikeSeq = id], Num(id))

insertHike(d, hike, fault) ==
    LET cols == HikeColumns(hike)
        id == d.hikeSeq + 1
    IN  IF fault THEN Fail(d, IoError)
        ELSE IF ~HikeNotNull(cols) THEN Fail(d, NotNullError)
        ELSE Ok([d EXCEPT !.hikes = @ \cup {WithId(id, cols)}, !.hikeSeq = id], Num(id))

\* an update that does not look at the id first: WHERE id = NULL matches no row
updateHikeUnchecked(d, hike, fault) ==
    IF fault THEN Fail(d, IoError) ELSE Ok(d, Undef)

updateHike(d, hike, fault) ==
    LET cols == HikeColumns(hike)
    IN  IF ~Truthy(hike.id) THEN Fail(d, HikeIdRequired)
        ELSE IF fault THEN Fail(d, IoError)
        ELSE IF \E r \in d.hikes : Num(r.id) = hike.id
        THEN IF ~HikeNotNull(cols) THEN Fail(d, NotNullError)
             ELSE Ok([d EXCEPT !.hikes =
                        {IF Num(r.id) = hike.id THEN WithId(r.id, cols) ELSE r : r \in @}],
                     Undef)
        ELSE Ok(d, Undef)

\* DELETE FROM hikes WHERE id = ? ; the ON DELETE CASCADE clause of table
\* observations acts only on a connection that enforces foreign keys
deleteHike(d, id, fault) ==
    IF fault THEN Fail(d, IoError)
    ELSE Ok([d EXCEPT !.hikes = {r \in @ : r.id # id},
                      !.observations =
                          IF d.fk /\ (\E r \in d.hikes : r.id = id)
                          THEN {o \in @ : o.hikeId # Num(id)} ELSE @],
            Undef)

\* first statement of deleteAllHikes: DELETE FROM hikes
deleteAllHikes1(d, fault) ==
    IF fault THEN Fail(d, IoError)
    ELSE Ok([d EXCEPT !.hikes = {},
                      !.observations =
                          IF d.fk
                          THEN {o \in @ : \A r \in d.hikes : o.hikeId # Num(r.id)}
                          ELSE @],
            Undef)

\* second statement of deleteAllHikes: DELETE FROM observations
deleteAllHikes2(d, fault) ==
    IF fault THEN Fail(d, IoError)
    ELSE Ok([d EXCEPT !.observations = {}], Undef)

ObservationColumns(o) ==
    [hikeId |-> Bind(o.hikeId),
     observation |-> Bind(o.observation),
     timestamp |-> Bind(o.timestamp),
     comments |-> OrNull(o.comments),
     photoUri |-> OrNull(o.photoUri)]

\* an insert whose failure takes the hike and its observations with it
insertObservationUndoing(d, o, fault) ==
    LET cols == ObservationColumns(o)
        id == d.obsSeq + 1
    IN  IF fault \/ cols.observation = Null
        THEN Fail([d EXCEPT !.hikes = {r \in @ : Num(r.id) # cols.hikeId},
                            !.observations = {x \in @ : x.hikeId # cols.hikeId}], IoError)
        ELSE Ok([d EXCEPT !.observations = @ \cup {WithId(id, cols)}, !.obsSeq = id],
                Num(id))

insertObservation(d, o, fault) ==
    LET cols == ObservationColumns(o)
        id == d.obsSeq + 1
    IN  IF fault THEN Fail(d, IoError)
        ELSE IF cols.hikeId = Null \/ cols.observation = Null \/ cols.timestamp = Null
        THEN Fail(d, NotNullError)
        ELSE IF d.fk /\ ~\E r \in d.hikes : Num(r.id) = cols.hikeId
        THEN Fail(d, ForeignKeyError)
        ELSE Ok([d EXCEPT !.observations = @ \cup {WithId(id, cols)}, !.obsSeq = id],
                Num(id))

\* UPDATE observations SET observation, timestamp, comments, photoUri
updateObservation(d, o, fault) ==
    IF ~Truthy(o.id) THEN Fail(d, ObservationIdRequired)
    ELSE IF fault THEN Fail(d, IoError)
    ELSE IF \E r \in d.observations : Num(r.id) = o.id
    THEN IF Bind(o.observation) = Null \/ Bind(o.timestamp) = Null
         THEN Fail(d, NotNullError)
         ELSE Ok([d EXCEPT !.observations =
                    {IF Num(r.id) = o.id
                     THEN [r EXCEPT !.observation = Bind(o.observation),
                                    !.timestamp = Bind(o.timestamp),
                                    !.comments = OrNull(o.comments),
                                    !.photoUri = OrNull(o.photoUri)]
                     ELSE r : r \in @}],
                 Undef)
    ELSE Ok(d, Undef)

deleteObservation(d, id, fault) ==
    IF fault THEN Fail(d, IoError)
    ELSE Ok([d EXCEPT !.observations = {r \in @ : r.id # id}], Undef)

(***************************************************************************)
(* Queries.  A SELECT with ORDER BY yields the matching rows in any order  *)
(* that respects the ordering terms, so a query is the set of the lists it *)
(* can return; getFirstAsync yields any one matching row, or null.         *)
(***************************************************************************)
\* an ORDER BY that sorts the dates upwards
DateAscNameAsc(r, q) ==
    \/ StrLess(Val(r.date), Val(q.date))
    \/ (Val(q.date) = Val(r.date) /\ ~StrLess(Val(q.name), Val(r.name)))

\* ORDER BY date DESC, name ASC: row r may not come after row q
DateDescNameAsc(r, q) ==
    \/ StrLess(Val(q.date), Val(r.date))
    \/ (Val(q.date) = Val(r.date) /\ ~StrLess(Val(q.name), Val(r.name)))

\* ORDER BY name ASC
NameAsc(r, q) == ~StrLess(Val(q.name), Val(r.name))

\* an order by timestamp, oldest first
TimestampAsc(r, q) == Val(r.timestamp) <= Val(q.timestamp)

\* ORDER BY timestamp DESC
TimestampDesc(r, q) == Val(r.timestamp) >= Val(q.timestamp)

\* row r may come before row q under the ORDER BY clause
MayPrecede(orderBy, r, q) ==
    CASE orderBy = "date DESC, name ASC" -> DateDescNameAsc(r, q)
      [] orderBy = "name ASC" -> NameAsc(r, q)
      [] orderBy = "timestamp DESC" -> TimestampDesc(r, q)

Ordered(rows, orderBy) ==
    {sq \in SeqsOf(rows) :
        \A i \in 1..Len(sq) : \A j \in 1..Len(sq) :
            i < j => MayPrecede(orderBy, sq[i], sq[j])}

\* result.map(row => ({...}))
HikeList(sq) == [i \in 1..Len(sq) |-> RowToHike(sq[i])]
ObservationList(sq) == [i \in 1..Len(sq) |-> RowToObservation(sq[i])]

getAllHikes(d) == {HikeList(sq) : sq \in Ordered(d.hikes, "date DESC, name ASC")}

getHikeById(d, id) ==
    IF \E r \in d.hikes : r.id = id
    THEN {Object(RowToHike(r)) : r \in {q \in d.hikes : q.id = id}}
    ELSE {Null}

getObservationsByHikeId(d, hikeId) ==
    {ObservationList(sq) :
        sq \in Ordered({o \in d.observations : o.hikeId = Num(hikeId)}, "timestamp DESC")}

\* SELECT * FROM hikes WHERE name LIKE '%query%' ORDER BY name ASC
searchHikes(d, query) ==
    {HikeList(sq) :
        sq \in Ordered({r \in d.hikes : Like(Wrap(Val(query)), Val(r.name))}, "name ASC")}

\* the criteria of advancedSearchHikes; an absent one is undefined
Criteria(name, location, minLen, maxLen, date, difficulty, parking) ==
    [name |-> name, location |-> location, minLen |-> minLen, maxLen |-> maxLen,
     date |-> date, difficulty |-> difficulty, parking |-> parking]

\* the WHERE clause advancedSearchHikes builds: 1=1 and one term for each
\* criterion that passes its test (truthy, or not undefined)
AdvancedMatch(row, c) ==
    /\ Truthy(c.name) => Like(Wrap(Val(c.name)), Val(row.name))
    /\ Truthy(c.location) => Like(Wrap(Val(c.location)), Val(row.location))
    /\ c.minLen # Undef => Val(row.lengthKm) >= Val(c.minLen)
    /\ c.maxLen # Undef => Val(row.lengthKm) <= Val(c.maxLen)
    /\ Truthy(c.date) => row.date = c.date
    /\ Truthy(c.difficulty) => row.difficulty = c.difficulty
    /\ c.parking # Undef => row.parkingAvailable = OneOrZero(c.parking)

advancedSearchHikes(d, c) ==
    {HikeList(sq) :
        sq \in Ordered({r \in d.hikes : AdvancedMatch(r, c)}, "date DESC, name ASC")}

(***************************************************************************)
(* openDatabase and ensureSchema.  Each call is one process; the awaits    *)
(* are the points where another call can run.                              *)
(***************************************************************************)
Calls == 1..MaxCalls

\* statements of ensureSchema: two CREATE TABLE, two CREATE INDEX
SchemaStatements == 4

\* what a call that rejects is rejected with: the error of
\* SQLite.openDatabaseAsync, or the error of a db.execAsync of ensureSchema
OpenError == <<"error", "openDatabaseAsync">>
SchemaError == <<"error", "execAsync">>

FaultChoice == IF faults > 0 THEN {FALSE, TRUE} ELSE {FALSE}
Spend(fault) == faults' = IF fault THEN faults - 1 ELSE faults

\* lines 10-13: create the promise if there is none, then await it
OpenDatabaseCall(c) ==
    /\ callPc[c] = "idle"
    /\ IF dbPromise.st = "null"
       THEN /\ dbPromise' = [st |-> "pending", h |-> handles + 1]
            /\ handles' = handles + 1
       ELSE UNCHANGED <<dbPromise, handles>>
    /\ callPc' = [callPc EXCEPT ![c] = "awaitDb"]
    /\ UNCHANGED <<schemaEnsured, foreignKeys, callStmts, callRet, resetPc, dbVars, faults, last, appVars>>

\* SQLite.openDatabaseAsync settles; the code sets no PRAGMA, so whether the
\* connection enforces foreign keys is the SQLite build's default
OpenDatabaseAsyncSettles ==
    /\ dbPromise.st = "pending"
    /\ \E fault \in FaultChoice :
        /\ Spend(fault)
        /\ IF fault
           THEN /\ dbPromise' = [dbPromise EXCEPT !.st = "rejected"]
                /\ UNCHANGED foreignKeys
           ELSE /\ dbPromise' = [dbPromise EXCEPT !.st = "resolved"]
                /\ foreignKeys' \in BOOLEAN
    /\ UNCHANGED <<handles, schemaEnsured, callPc, callStmts, callRet, resetPc, dbVars, last, appVars>>

\* a call that does not test schemaEnsured when another call came first
OpenDatabaseResumeSkipping(c) ==
    /\ callPc[c] = "awaitDb"
    /\ dbPromise.st \in {"resolved", "rejected"}
    /\ callPc' = [callPc EXCEPT ![c] =
                    IF dbPromise.st = "rejected" THEN "rejected"
                    ELSE IF \A e \in Calls : callPc[e] \in {"idle", "awaitDb"}
                    THEN "schema" ELSE "return"]
    /\ callRet' = IF dbPromise.st = "rejected" THEN [callRet EXCEPT ![c] = OpenError]
                  ELSE callRet
    /\ UNCHANGED <<dbPromise, handles, schemaEnsured, foreignKeys, callStmts,
                   resetPc, dbVars, faults, last, appVars>>

\* line 13 resumes, line 14 tests schemaEnsured
OpenDatabaseResume(c) ==
    /\ callPc[c] = "awaitDb"
    /\ dbPromise.st \in {"resolved", "rejected"}
    /\ callPc' = [callPc EXCEPT ![c] =
                    IF dbPromise.st = "rejected" THEN "rejected"
                    ELSE IF ~schemaEnsured THEN "schema" ELSE "return"]
    /\ callRet' = IF dbPromise.st = "rejected" THEN [callRet EXCEPT ![c] = OpenError]
                  ELSE callRet
    /\ UNCHANGED <<dbPromise, handles, schemaEnsured, foreignKeys, callStmts,
                   resetPc, dbVars, faults, last, appVars>>

\* an ensureSchema whose failure is final: the flag is set all the same
EnsureSchemaStepGivingUp(c) ==
    /\ callPc[c] = "schema"
    /\ \E fault \in FaultChoice :
        /\ Spend(fault)
        /\ IF fault
           THEN /\ callPc' = [callPc EXCEPT ![c] = "rejected"]
                /\ callRet' = [callRet EXCEPT ![c] = SchemaError]
                /\ schemaEnsured' = TRUE
                /\ UNCHANGED callStmts
           ELSE /\ callStmts' = [callStmts EXCEPT ![c] = @ + 1]
                /\ callPc' = [callPc EXCEPT ![c] =
                                IF callStmts[c] + 1 = SchemaStatements
                                THEN "setFlag" ELSE "schema"]
                /\ UNCHANGED <<callRet, schemaEnsured>>
    /\ UNCHANGED <<dbPromise, handles, foreignKeys, resetPc, dbVars, last, appVars>>

\* one db.execAsync of ensureSchema; a failure is rethrown to the caller
EnsureSchemaStep(c) ==
    /\ callPc[c] = "schema"
    /\ \E fault \in FaultChoice :
        /\ Spend(fault)
        /\ IF fault
           THEN /\ callPc' = [callPc EXCEPT ![c] = "rejected"]
                /\ callRet' = [callRet EXCEPT ![c] = SchemaError]
                /\ UNCHANGED callStmts
           ELSE /\ callStmts' = [callStmts EXCEPT ![c] = @ + 1]
                /\ callPc' = [callPc EXCEPT ![c] =
                                IF callStmts[c] + 1 = SchemaStatements
                                THEN "setFlag" ELSE "schema"]
                /\ UNCHANGED callRet
    /\ UNCHANGED <<dbPromise, handles, schemaEnsured, foreignKeys, resetPc,
                   dbVars, last, appVars>>

\* line 16
OpenDatabaseSetFlag(c) ==
    /\ callPc[c] = "setFlag"
    /\ schemaEnsured' = TRUE
    /\ callPc' = [callPc EXCEPT ![c] = "return"]
    /\ UNCHANGED <<dbPromise, handles, foreignKeys, callStmts, callRet, resetPc,
                   dbVars, faults, last, appVars>>

\* line 18
OpenDatabaseReturn(c) ==
    /\ callPc[c] = "return"
    /\ callRet' = [callRet EXCEPT ![c] = dbPromise.h]
    /\ callPc' = [callPc EXCEPT ![c] = "returned"]
    /\ UNCHANGED <<dbPromise, handles, schemaEnsured, foreignKeys, callStmts, resetPc,
                   dbVars, faults, last, appVars>>

OpenDatabase(callers) ==
    \E c \in callers :
        \/ OpenDatabaseCall(c)
        \/ OpenDatabaseResume(c)
        \/ EnsureSchemaStep(c)
        \/ OpenDatabaseSetFlag(c)
        \/ OpenDatabaseReturn(c)

\* a repository function's own openDatabase call passes straight through
\* once the promise is resolved and schemaEnsured is set
Opened == dbPromise.st = "resolved" /\ schemaEnsured

(***************************************************************************)
(* The import and export codec of lib/storage.ts.  A text is a sequence of *)
(* symbols: the characters of the values, the punctuation of JSON, a line  *)
(* break, and one symbol for each fixed piece of the readable header and   *)
(* for each property name.                                                 *)
(***************************************************************************)
DigitChar(d) ==
    CASE d = 0 -> "0" [] d = 1 -> "1" [] d = 2 -> "2" [] d = 3 -> "3" [] d = 4 -> "4"
      [] d = 5 -> "5" [] d = 6 -> "6" [] d = 7 -> "7" [] d = 8 -> "8" [] OTHER -> "9"

IsDigit(c) == c \in {"0", "1", "2", "3", "4", "5", "6", "7", "8", "9"}

DigitVal(c) == CHOOSE d \in 0..9 : DigitChar(d) = c

RECURSIVE NumToStr(_)
\* the decimal digits of a natural number
NumToStr(n) ==
    IF n < 10 THEN <<DigitChar(n)>>
    ELSE NumToStr(n \div 10) \o <<DigitChar(n % 10)>>

\* ${v} in a template literal
ToText(v) ==
    CASE v[1] = "str" -> v[2]
      [] v[1] = "num" -> NumToStr(v[2])
      [] v[1] = "bool" -> (IF v[2] THEN <<"true">> ELSE <<"false">>)
      [] v[1] = "null" -> <<"null">>
      [] OTHER -> <<"undefined">>

RECURSIVE Escape(_)
\* the characters of a JSON string literal: quote and backslash are escaped
Escape(s) ==
    IF s = <<>> THEN <<>>
    ELSE (IF Head(s) \in {"\"", "\\"} THEN <<"\\", Head(s)>> ELSE <<Head(s)>>)
         \o Escape(Tail(s))

\* JSON.stringify of a primitive value
StringifyValue(v) ==
    CASE v[1] = "str" -> <<"\"">> \o Escape(v[2]) \o <<"\"">>
      [] v[1] = "num" -> NumToStr(v[2])
      [] v[1] = "bool" -> (IF v[2] THEN <<"true">> ELSE <<"false">>)
      [] OTHER -> <<"null">>

RECURSIVE StringifyMembers(_, _, _)
\* the members of an object in property order; a property whose value is
\* undefined is left out.  first: no member has been written yet
StringifyMembers(keys, obj, first) ==
    IF keys = <<>> THEN <<>>
    ELSE IF obj[Head(keys)] = Undef THEN StringifyMembers(Tail(keys), obj, first)
    ELSE (IF first THEN <<"\n">> ELSE <<",", "\n">>)
         \o <<"\"", Head(keys), "\"", ":", " ">>
         \o (IF obj[Head(keys)][1] = "json" THEN obj[Head(keys)][2]
             ELSE StringifyValue(obj[Head(keys)]))
         \o StringifyMembers(Tail(keys), obj, FALSE)

StringifyObject(keys, obj) ==
    LET members == StringifyMembers(keys, obj, TRUE)
    IN  IF members = <<>> THEN <<"{", "}">> ELSE <<"{">> \o members \o <<"\n", "}">>

RECURSIVE StringifyArray(_, _)
\* an array of already written elements
StringifyArray(elems, first) ==
    IF elems = <<>> THEN <<>>
    ELSE (IF first THEN <<"\n">> ELSE <<",", "\n">>)
         \o Head(elems) \o StringifyArray(Tail(elems), FALSE)

ObservationExportKeys == <<"observation", "timestamp", "comments">>

HikeExportKeys ==
    <<"name", "location", "date", "parkingAvailable", "lengthKm", "difficulty",
      "description", "elevationGainM", "rating", "latitude", "longitude", "observations">>

\* lines 66-70: each observation reduced to its text, timestamp and comments
ObservationExportFormat(obs) ==
    [observation |-> obs.observation, timestamp |-> obs.timestamp, comments |-> obs.comments]

\* lines 54-71 and 84: JSON.stringify(exportData, null, 2)
ExportJson(hike, obsList) ==
    LET elems == [i \in 1..Len(obsList) |->
                    StringifyObject(ObservationExportKeys, ObservationExportFormat(obsList[i]))]
        array == IF elems = <<>> THEN <<"[", "]">>
                 ELSE <<"[">> \o StringifyArray(elems, TRUE) \o <<"\n", "]">>
        exportData ==
            [name |-> hike.name, location |-> hike.location, date |-> hike.date,
             parkingAvailable |-> hike.parkingAvailable, lengthKm |-> hike.lengthKm,
             difficulty |-> hike.difficulty, description |-> hike.description,
             elevationGainM |-> hike.elevationGainM, rating |-> hike.rating,
             latitude |-> hike.latitude, longitude |-> hike.longitude,
             observations |-> <<"json", array>>]
    IN  StringifyObject(HikeExportKeys, exportData)

\* an export that writes the photo of the hike as well
exportHikeToJsonWithPhoto(hike, obsList) ==
    <<"Photo: ">> \o ToText(hike.photoUri) \o <<"\n">> \o ExportJson(hike, obsList)

\* lines 74-84: the readable header, then the JSON
exportHikeToJson(hike, obsList) ==
    <<"=== Hike Export ===", "\n">>
    \o <<"Name: ">> \o ToText(hike.name) \o <<"\n">>
    \o <<"Location: ">> \o ToText(hike.location) \o <<"\n">>
    \o <<"Date: ">> \o ToText(hike.date) \o <<"\n">>
    \o <<"Length: ">> \o ToText(hike.lengthKm) \o <<" km", "\n">>
    \o <<"Difficulty: ">> \o ToText(hike.difficulty) \o <<"\n">>
    \o <<"Parking: ">>
    \o (IF Truthy(hike.parkingAvailable) THEN <<"Available">> ELSE <<"Unavailable">>)
    \o <<"\n">>
    \o (IF Truthy(hike.elevationGainM)
        THEN <<"Elevation Gain: ">> \o ToText(hike.elevationGainM) \o <<" m", "\n">>
        ELSE <<>>)
    \o (IF Truthy(hike.rating)
        THEN <<"Rating: ">> \o ToText(hike.rating) \o <<"/5", "\n">> ELSE <<>>)
    \o (IF Truthy(hike.description)
        THEN <<"Description: ">> \o ToText(hike.description) \o <<"\n">> ELSE <<>>)
    \o <<"\n">>
    \o (IF Len(obsList) > 0
        THEN <<"Observations: ">> \o NumToStr(Len(obsList)) \o <<"\n">> ELSE <<>>)
    \o <<"\n">>
    \o <<"=== JSON Data (for import) ===", "\n">>
    \o ExportJson(hike, obsList)

(***************************************************************************)
(* JSON.parse.  An object is <<"obj", f>> with f a function from property  *)
(* names to values, an array <<"arr", s>> with s the sequence of elements. *)
(***************************************************************************)
Parsed(val, rest) == [ok |-> TRUE, val |-> val, rest |-> rest]
NotParsed == [ok |-> FALSE, val |-> Undef, rest |-> <<>>]

RECURSIVE SkipWs(_)
SkipWs(t) == IF t # <<>> /\ Head(t) \in {"\n", " "} THEN SkipWs(Tail(t)) ELSE t

RECURSIVE ParseString(_, _)
\* t follows the opening quote; acc holds the characters read so far
ParseString(t, acc) ==
    IF t = <<>> THEN NotParsed
    ELSE IF Head(t) = "\"" THEN Parsed(Str(acc), Tail(t))
    ELSE IF Head(t) = "\n" THEN NotParsed
    ELSE IF Head(t) = "\\"
         THEN IF Len(t) >= 2 /\ t[2] \in {"\"", "\\"}
              THEN ParseString(Tail(Tail(t)), Append(acc, t[2]))
              ELSE NotParsed
    ELSE ParseString(Tail(t), Append(acc, Head(t)))

RECURSIVE ParseNumber(_, _)
\* t starts with the digits still to read; n is the value of those read
ParseNumber(t, n) ==
    IF t # <<>> /\ IsDigit(Head(t)) THEN ParseNumber(Tail(t), 10 * n + DigitVal(Head(t)))
    ELSE Parsed(Num(n), t)

PutMember(f, key, val) ==
    [k \in DOMAIN f \cup {key} |-> IF k = key THEN val ELSE f[k]]

RECURSIVE ParseValue(_)
RECURSIVE ParseMembers(_, _)
RECURSIVE ParseElements(_, _)

\* t follows "{" or a comma: a member, then a comma or the closing brace
ParseMembers(t0, f) ==
    LET t == SkipWs(t0)
    IN  IF t = <<>> \/ Head(t) # "\"" THEN NotParsed
        ELSE LET key == ParseString(Tail(t), <<>>)
                 colon == SkipWs(key.rest)
             IN  IF ~key.ok \/ colon = <<>> \/ Head(colon) # ":" THEN NotParsed
                 ELSE LET v == ParseValue(Tail(colon))
                          after == SkipWs(v.rest)
                          g == PutMember(f, Val(key.val), v.val)
                      IN  IF ~v.ok \/ after = <<>> THEN NotParsed
                          ELSE IF Head(after) = "}" THEN Parsed(<<"obj", g>>, Tail(after))
                          ELSE IF Head(after) = "," THEN ParseMembers(Tail(after), g)
                          ELSE NotParsed

\* t follows "[" or a comma: an element, then a comma or the closing bracket
ParseElements(t, acc) ==
    LET v == ParseValue(t)
        after == SkipWs(v.rest)
    IN  IF ~v.ok \/ after = <<>> THEN NotParsed
        ELSE IF Head(after) = "]" THEN Parsed(<<"arr", Append(acc, v.val)>>, Tail(after))
        ELSE IF Head(after) = "," THEN ParseElements(Tail(after), Append(acc, v.val))
        ELSE NotParsed

ParseValue(t0) ==
    LET t == SkipWs(t0)
    IN  IF t = <<>> THEN NotParsed
        ELSE IF Head(t) = "{"
             THEN LET u == SkipWs(Tail(t))
                  IN  IF u # <<>> /\ Head(u) = "}" THEN Parsed(<<"obj", <<>>>>, Tail(u))
                      ELSE ParseMembers(u, <<>>)
        ELSE IF Head(t) = "["
             THEN LET u == SkipWs(Tail(t))
                  IN  IF u # <<>> /\ Head(u) = "]" THEN Parsed(<<"arr", <<>>>>, Tail(u))
                      ELSE ParseElements(u, <<>>)
        ELSE IF Head(t) = "\"" THEN ParseString(Tail(t), <<>>)
        ELSE IF Head(t) = "true" THEN Parsed(Bool(TRUE), Tail(t))
        ELSE IF Head(t) = "false" THEN Parsed(Bool(FALSE), Tail(t))
        ELSE IF Head(t) = "null" THEN Parsed(Null, Tail(t))
        ELSE IF IsDigit(Head(t)) THEN ParseNumber(t, 0)
        ELSE NotParsed

\* JSON.parse: one value and nothing but white space after it
JsonParse(text) ==
    LET r == ParseValue(text)
    IN  IF r.ok /\ SkipWs(r.rest) = <<>> THEN r ELSE NotParsed

\* data.key : undefined for a property that is absent and for a value that is
\* no object
Get(data, key) ==
    IF data[1] = "obj" /\ <<key>> \in DOMAIN data[2] THEN data[2][<<key>>] ELSE Undef

Positions(text, c) == {i \in 1..Len(text) : text[i] = c}
Min(S) == CHOOSE x \in S : \A y \in S : x <= y
Max(S) == CHOOSE x \in S : \A y \in S : x >= y

\* jsonText.match(/\{[\s\S]*\}/): from the first "{" to the last "}" after it;
\* the whole text when there is no such pair
JsonMatch(text) ==
    LET opens == Positions(text, "{")
        closes == IF opens = {} THEN {} ELSE {j \in Positions(text, "}") : j > Min(opens)}
    IN  IF closes = {} THEN text ELSE SubSeq(text, Min(opens), Max(closes))

InvalidJson == "Invalid JSON file format. Please select a valid hike export file."
InvalidHikeData == "Invalid hike data format. Please check the file content."
MissingFields ==
    "Missing required fields: name, location, date, parkingAvailable, lengthKm, or difficulty"

\* line 139: the names of fields that the message of an error holds
NamedFields(err) ==
    IF err = MissingFields
    THEN {"name", "location", "date", "parkingAvailable", "lengthKm", "difficulty"}
    ELSE {}

\* a decoder that asks for the name only
parseImportJsonNameOnly(jsonText) ==
    LET r == JsonParse(JsonMatch(jsonText))
    IN  IF ~r.ok THEN [ok |-> FALSE, res |-> Undef, err |-> InvalidJson]
        ELSE IF ~Truthy(Get(r.val, "name"))
        THEN [ok |-> FALSE, res |-> Undef, err |-> MissingFields]
        ELSE [ok |-> TRUE, res |-> r.val, err |-> ""]

\* lines 129-154; reading a property of null is a TypeError, which the catch
\* turns into the invalid-data error
parseImportJson(jsonText) ==
    LET r == JsonParse(JsonMatch(jsonText))
        data == r.val
    IN  IF ~r.ok THEN [ok |-> FALSE, res |-> Undef, err |-> InvalidJson]
        ELSE IF data = Null THEN [ok |-> FALSE, res |-> Undef, err |-> InvalidHikeData]
        ELSE IF \/ ~Truthy(Get(data, "name")) \/ ~Truthy(Get(data, "location"))
                \/ ~Truthy(Get(data, "date")) \/ Get(data, "parkingAvailable") = Undef
                \/ ~Truthy(Get(data, "lengthKm")) \/ ~Truthy(Get(data, "difficulty"))
        THEN [ok |-> FALSE, res |-> Undef, err |-> MissingFields]
        ELSE [ok |-> TRUE, res |-> data, err |-> ""]

(***************************************************************************)
(* Repository calls.  Each action is one call of a function of             *)
(* lib/database.ts from its openDatabase to its return; only               *)
(* deleteAllHikes runs two statements and so has a point in between.       *)
(***************************************************************************)
Hike(name, location, date, parking, lengthKm, difficulty) ==
    [id |-> Undef, name |-> Str(name), location |-> Str(location), date |-> Str(date),
     parkingAvailable |-> Bool(parking), lengthKm |-> Num(lengthKm),
     difficulty |-> Str(difficulty), description |-> Undef, elevationGainM |-> Undef,
     rating |-> Undef, photoUri |-> Undef, latitude |-> Undef, longitude |-> Undef,
     addedToCalendar |-> Undef]

Observation(hikeId, text, timestamp, comments) ==
    [id |-> Undef, hikeId |-> Num(hikeId), observation |-> Str(text),
     timestamp |-> Num(timestamp), comments |-> comments, photoUri |-> Undef]

Easy == <<"Easy">>
Moderate == <<"Moderate">>
Hard == <<"Hard">>

HikeIds == 1..MaxHikeSeq
ObsIds == 1..MaxObsSeq

\* the hikes and observations the screens save in the store specification
SavedHike == Hike(<<"a">>, <<"b">>, <<"1">>, TRUE, 7, Hard)

EditedHike ==
    [Hike(<<"b">>, <<"a">>, <<"2">>, FALSE, 3, Easy) EXCEPT
        !.elevationGainM = Num(0), !.rating = Num(4), !.addedToCalendar = Bool(TRUE)]

SavedObservations == {Observation(h, <<"a">>, 1, Undef) : h \in HikeIds}

EditedObservation == Observation(1, <<"b">>, 2, Str(<<"a">>))

NoCall == [op |-> "none", arg |-> Undef, ok |-> TRUE, res |-> Undef, err |-> ""]
Completed(op, arg, out) ==
    [op |-> op, arg |-> arg, ok |-> out.ok, res |-> out.res, err |-> out.err]

SetDb(d) ==
    /\ hikes' = d.hikes
    /\ observations' = d.observations
    /\ hikeSeq' = d.hikeSeq
    /\ obsSeq' = d.obsSeq

\* a call that runs one data-changing statement
Mutation(op, arg, out) ==
    /\ SetDb(out.d)
    /\ last' = Completed(op, arg, out)
    /\ UNCHANGED <<connVars, resetPc, appVars>>

\* a call that runs one SELECT and returns one of its possible results
Query(op, arg, results) ==
    /\ \E res \in results : last' = [op |-> op, arg |-> arg, ok |-> TRUE, res |-> res, err |-> ""]
    /\ UNCHANGED <<connVars, resetPc, dbVars, faults, appVars>>

InsertHike(inputs) ==
    /\ Opened /\ hikeSeq < MaxHikeSeq
    /\ \E hike \in inputs : \E fault \in FaultChoice :
        /\ Spend(fault)
        /\ Mutation("insertHike", hike, insertHike(DB, hike, fault))

UpdateHike(inputs) ==
    /\ Opened
    /\ \E h \in inputs : \E id \in {Num(i) : i \in HikeIds} \cup {Undef} :
       \E fault \in FaultChoice :
        LET hike == [h EXCEPT !.id = id]
        IN  /\ Spend(fault)
            /\ Mutation("updateHike", hike, updateHike(DB, hike, fault))

DeleteHikeOf(id) ==
    /\ Opened
    /\ \E fault \in FaultChoice :
        /\ Spend(fault)
        /\ Mutation("deleteHike", Num(id), deleteHike(DB, id, fault))

DeleteHike == \E id \in HikeIds : DeleteHikeOf(id)

\* deleteAllHikes up to the end of its first statement
DeleteAllHikesFirst ==
    /\ Opened /\ resetPc = "idle"
    /\ \E fault \in FaultChoice :
        LET out == deleteAllHikes1(DB, fault)
        IN  /\ Spend(fault)
            /\ SetDb(out.d)
            /\ IF out.ok
               THEN resetPc' = "second" /\ UNCHANGED last
               ELSE resetPc' = "idle" /\ last' = Completed("deleteAllHikes", Undef, out)
            /\ UNCHANGED <<connVars, appVars>>

\* deleteAllHikes from its second statement to its return
DeleteAllHikesSecond ==
    /\ resetPc = "second"
    /\ \E fault \in FaultChoice :
        LET out == deleteAllHikes2(DB, fault)
        IN  /\ Spend(fault)
            /\ SetDb(out.d)
            /\ resetPc' = "idle"
            /\ last' = Completed("deleteAllHikes", Undef, out)
            /\ UNCHANGED <<connVars, appVars>>

InsertObservation(inputs) ==
    /\ Opened /\ obsSeq < MaxObsSeq
    /\ \E o \in inputs : \E fault \in FaultChoice :
        /\ Spend(fault)
        /\ Mutation("insertObservation", o, insertObservation(DB, o, fault))

UpdateObservation(inputs) ==
    /\ Opened
    /\ \E ob \in inputs : \E id \in {Num(i) : i \in ObsIds} \cup {Undef} :
       \E fault \in FaultChoice :
        LET o == [ob EXCEPT !.id = id]
        IN  /\ Spend(fault)
            /\ Mutation("updateObservation", o, updateObservation(DB, o, fault))

DeleteObservation ==
    /\ Opened
    /\ \E id \in ObsIds : \E fault \in FaultChoice :
        /\ Spend(fault)
        /\ Mutation("deleteObservation", Num(id), deleteObservation(DB, id, fault))

GetAllHikes == Opened /\ Query("getAllHikes", Undef, getAllHikes(DB))

GetHikeById == Opened /\ \E id \in HikeIds : Query("getHikeById", Num(id), getHikeById(DB, id))

GetObservationsByHikeId ==
    Opened /\ \E id \in HikeIds :
        Query("getObservationsByHikeId", Num(id), getObservationsByHikeId(DB, id))

\* a lookup that compares the name without regard to case
DuplicateMatchFoldingCase(row, hike) ==
    /\ [k \in 1..Len(Val(row.name)) |-> Lower(Val(row.name)[k])]
         = [k \in 1..Len(Val(hike.name)) |-> Lower(Val(hike.name)[k])]
    /\ row.location = Bind(hike.location)
    /\ row.date = Bind(hike.date)
    /\ row.lengthKm = Bind(hike.lengthKm)
    /\ row.difficulty = Bind(hike.difficulty)
    /\ row.parkingAvailable = OneOrZero(hike.parkingAvailable)

\* a lookup that also compares the description
DuplicateMatchWithDescription(row, hike) ==
    /\ row.name = Bind(hike.name)
    /\ row.location = Bind(hike.location)
    /\ row.date = Bind(hike.date)
    /\ row.lengthKm = Bind(hike.lengthKm)
    /\ row.difficulty = Bind(hike.difficulty)
    /\ row.parkingAvailable = OneOrZero(hike.parkingAvailable)
    /\ row.description = OrNull(hike.description)

\* the WHERE clause of findDuplicateHike: exact equality on the six columns
DuplicateMatch(row, hike) ==
    /\ row.name = Bind(hike.name)
    /\ row.location = Bind(hike.location)
    /\ row.date = Bind(hike.date)
    /\ row.lengthKm = Bind(hike.lengthKm)
    /\ row.difficulty = Bind(hike.difficulty)
    /\ row.parkingAvailable = OneOrZero(hike.parkingAvailable)

\* the results findDuplicateHike can return: LIMIT 1 picks any matching row
findDuplicateHike(d, hike) ==
    IF \E r \in d.hikes : DuplicateMatch(r, hike)
    THEN {Object(RowToHike(r)) : r \in {q \in d.hikes : DuplicateMatch(q, hike)}}
    ELSE {Null}

FindDuplicateHike(inputs) ==
    Opened /\ \E hike \in inputs : Query("findDuplicateHike", hike, findDuplicateHike(DB, hike))

SearchHikes(queries) ==
    Opened /\ \E query \in queries : Query("searchHikes", query, searchHikes(DB, query))

AdvancedSearchHikes(criteria) ==
    Opened /\ \E c \in criteria :
        Query("advancedSearchHikes", c, advancedSearchHikes(DB, c))

(***************************************************************************)
(* Export and decoding.  exportHikeToJson is given a hike the caller read  *)
(* from the store and reads the hike's observations itself; the text it    *)
(* returns may later be handed to parseImportJson.                         *)
(***************************************************************************)
NoExport ==
    [st |-> "none", hike |-> Undef, observations |-> <<>>, text |-> <<>>,
     decoded |-> [ok |-> FALSE, res |-> Undef, err |-> ""]]

\* lines 48-91, called with a hike of the store
ExportHikeToJson ==
    /\ Opened
    /\ \E id \in HikeIds : \E hike \in getHikeById(DB, id) :
        \E obsList \in getObservationsByHikeId(DB, id) :
            /\ hike # Null
            /\ exported' = [NoExport EXCEPT !.st = "exported", !.hike = hike[2],
                               !.observations = obsList,
                               !.text = exportHikeToJson(hike[2], obsList)]
    /\ UNCHANGED <<connVars, resetPc, dbVars, faults, last, imp, uiVars>>

\* the import dialog: the text typed or pasted into its field
SetJsonText(texts) ==
    /\ \E text \in texts : exported' = [NoExport EXCEPT !.st = "exported", !.text = text]
    /\ UNCHANGED <<connVars, resetPc, dbVars, faults, last, imp, uiVars>>

\* lines 129-154, applied to the exported text
ParseImportJson ==
    /\ exported.st = "exported"
    /\ exported' = [exported EXCEPT !.st = "decoded", !.decoded = parseImportJson(exported.text)]
    /\ UNCHANGED <<connVars, resetPc, dbVars, faults, last, imp, uiVars>>

(***************************************************************************)
(* importHikeFromJson.  The call is a process: it decodes the text, then   *)
(* awaits findDuplicateHike, insertHike and one insertObservation for each *)
(* embedded observation.  before is the store as the call found it, and    *)
(* failure the message of the error the call caught, if any.  The steps    *)
(* say nothing of the screens' state: the handler that makes the call      *)
(* does.                                                                   *)
(***************************************************************************)
DuplicateMessage == "Import failed! You already have this hike"

ImportIdle ==
    [pc |-> "idle", text |-> <<>>, data |-> Undef, hikeId |-> Undef, k |-> 0,
     failure |-> "", settled |-> "",
     result |-> [success |-> FALSE, message |-> <<>>, hikeId |-> Undef],
     before |-> [hikes |-> {}, observations |-> {}]]

\* an import that marks the hike as added to the calendar
ImportedHikeOnCalendar(data, addedToCalendar) ==
    [id |-> Undef,
     name |-> Get(data, "name"),
     location |-> Get(data, "location"),
     date |-> Get(data, "date"),
     parkingAvailable |-> Get(data, "parkingAvailable"),
     lengthKm |-> Get(data, "lengthKm"),
     difficulty |-> Get(data, "difficulty"),
     description |-> Get(data, "description"),
     elevationGainM |-> Get(data, "elevationGainM"),
     rating |-> Get(data, "rating"),
     photoUri |-> Undef,
     latitude |-> Get(data, "latitude"),
     longitude |-> Get(data, "longitude"),
     addedToCalendar |-> Bool(TRUE)]

\* lines 165-177 and 187-200: the hike built from the decoded data
ImportedHike(data, addedToCalendar) ==
    [id |-> Undef,
     name |-> Get(data, "name"),
     location |-> Get(data, "location"),
     date |-> Get(data, "date"),
     parkingAvailable |-> Get(data, "parkingAvailable"),
     lengthKm |-> Get(data, "lengthKm"),
     difficulty |-> Get(data, "difficulty"),
     description |-> Get(data, "description"),
     elevationGainM |-> Get(data, "elevationGainM"),
     rating |-> Get(data, "rating"),
     photoUri |-> Undef,
     latitude |-> Get(data, "latitude"),
     longitude |-> Get(data, "longitude"),
     addedToCalendar |-> addedToCalendar]

\* lines 203-204: the entries the loop visits; the loop is entered when
\* data.observations has a positive length, and a string iterates by character
ImportedEntries(data) ==
    LET obs == Get(data, "observations")
    IN  IF obs[1] = "arr" THEN obs[2]
        ELSE IF obs[1] = "str" THEN [j \in 1..Len(obs[2]) |-> Str(<<obs[2][j]>>)]
        ELSE <<>>

\* lines 205-210
ImportedObservation(hikeId, entry) ==
    [id |-> Undef,
     hikeId |-> hikeId,
     observation |-> Get(entry, "observation"),
     timestamp |-> Get(entry, "timestamp"),
     comments |-> Get(entry, "comments"),
     photoUri |-> Undef]

\* lines 214-218
ImportSuccess(data, hikeId) ==
    [success |-> TRUE,
     message |-> <<"Hike \"">> \o ToText(Get(data, "name")) \o <<"\" imported successfully">>
                 \o (IF Len(ImportedEntries(data)) > 0
                     THEN <<" with ">> \o NumToStr(Len(ImportedEntries(data)))
                          \o <<" observation(s)">>
                     ELSE <<>>),
     hikeId |-> hikeId]

\* lines 179-184
ImportDuplicate == [success |-> FALSE, message |-> <<DuplicateMessage>>, hikeId |-> Undef]

\* a catch block that throws the error on
ImportRethrown(message) ==
    [settled |-> "rejected",
     result |-> [success |-> FALSE, message |-> <<message>>, hikeId |-> Undef]]

\* lines 219-225: every error thrown in these paths is an Error, so the
\* message returned is its message
ImportCaught(message) ==
    [settled |-> "resolved",
     result |-> [success |-> FALSE, message |-> <<message>>, hikeId |-> Undef]]

Settle(i, outcome) ==
    imp' = [imp EXCEPT ![i].pc = "done", ![i].settled = outcome.settled,
                       ![i].result = outcome.result]

Catch(i, message) ==
    imp' = [imp EXCEPT ![i].pc = "done", ![i].failure = message,
                       ![i].settled = ImportCaught(message).settled,
                       ![i].result = ImportCaught(message).result]

\* the call up to its first await: line 162.  decoded maps each text the
\* call may be given to what parseImportJson makes of it.
ImportStart(i, decoded) ==
    /\ Opened
    /\ imp[i].pc \in {"idle", "done"}
    /\ \E text \in DOMAIN decoded :
        LET p == decoded[text]
            fresh == [ImportIdle EXCEPT !.text = text,
                        !.before = [hikes |-> hikes, observations |-> observations]]
        IN  IF p.ok
            THEN imp' = [imp EXCEPT ![i] = [fresh EXCEPT !.pc = "find", !.data = p.res]]
            ELSE imp' = [imp EXCEPT ![i] =
                           [fresh EXCEPT !.pc = "done", !.failure = p.err,
                                         !.settled = ImportCaught(p.err).settled,
                                         !.result = ImportCaught(p.err).result]]
    /\ UNCHANGED <<connVars, resetPc, dbVars, faults, last, exported>>

\* lines 165-184: findDuplicateHike returns
ImportFind(i) ==
    /\ imp[i].pc = "find"
    /\ \E fault \in FaultChoice :
        /\ Spend(fault)
        /\ IF fault THEN Catch(i, IoError)
           ELSE \E dup \in findDuplicateHike(DB, ImportedHike(imp[i].data, Undef)) :
                  IF Truthy(dup)
                  THEN Settle(i, [settled |-> "resolved", result |-> ImportDuplicate])
                  ELSE imp' = [imp EXCEPT ![i].pc = "insert"]
    /\ UNCHANGED <<connVars, resetPc, dbVars, last, exported>>

\* lines 187-200: insertHike returns; lines 203, 214: nothing to loop over
ImportInsertHike(i) ==
    /\ imp[i].pc = "insert"
    /\ hikeSeq < MaxHikeSeq
    /\ \E fault \in FaultChoice :
        LET out == insertHike(DB, ImportedHike(imp[i].data, Bool(FALSE)), fault)
        IN  /\ Spend(fault)
            /\ SetDb(out.d)
            /\ IF ~out.ok THEN Catch(i, out.err)
               ELSE IF Len(ImportedEntries(imp[i].data)) > 0
               THEN imp' = [imp EXCEPT ![i].pc = "observations", ![i].hikeId = out.res,
                                       ![i].k = 1]
               ELSE imp' = [imp EXCEPT ![i].pc = "done", ![i].hikeId = out.res,
                              ![i].settled = "resolved",
                              ![i].result = ImportSuccess(imp[i].data, out.res)]
    /\ UNCHANGED <<connVars, resetPc, last, exported>>

\* lines 204-211: one insertObservation returns; reading a property of an
\* entry that is null is a TypeError
ImportInsertObservation(i) ==
    /\ imp[i].pc = "observations"
    /\ LET entries == ImportedEntries(imp[i].data)
           entry == entries[imp[i].k]
       IN  IF entry = Null
           THEN /\ Catch(i, "Cannot read property 'observation' of null")
                /\ UNCHANGED <<dbVars, faults>>
           ELSE /\ obsSeq < MaxObsSeq
                /\ \E fault \in FaultChoice :
                    LET out == insertObservation(DB, ImportedObservation(imp[i].hikeId, entry),
                                                 fault)
                    IN  /\ Spend(fault)
                        /\ SetDb(out.d)
                        /\ IF ~out.ok THEN Catch(i, out.err)
                           ELSE IF imp[i].k < Len(entries)
                           THEN imp' = [imp EXCEPT ![i].k = @ + 1]
                           ELSE imp' = [imp EXCEPT ![i].pc = "done",
                                          ![i].settled = "resolved",
                                          ![i].result =
                                              ImportSuccess(imp[i].data, imp[i].hikeId)]
    /\ UNCHANGED <<connVars, resetPc, last, exported>>

ImportHikeFromJson(decoded) ==
    \E i \in DOMAIN imp :
        \/ ImportStart(i, decoded)
        \/ ImportFind(i)
        \/ ImportInsertHike(i)
        \/ ImportInsertObservation(i)

\* no importHikeFromJson call is in progress
ImportsQuiet == \A i \in DOMAIN imp : imp[i].pc \in {"idle", "done"}

(***************************************************************************)
(* DataProvider and HikeListScreen.  A state setter schedules the effects  *)
(* that depend on the state; an effect runs in a later step.  A            *)
(* refreshHikes call reads the store when its getAllHikes statement runs   *)
(* and sets the context's hikes when the result arrives; results arrive in *)
(* the order the statements ran.  The list screen is modelled with no      *)
(* search text and no filter.                                              *)
(***************************************************************************)
Reading == [st |-> "reading", data |-> <<>>]

\* index.tsx lines 69 and 86: query.trim() === ''
Blank(query) == \A k \in 1..Len(query) : query[k] = " "

\* a searchHikes call of handleSearch that has not run its statement yet
Searching(query) == [st |-> "reading", query |-> query, data |-> <<>>]

\* DataContext.tsx lines 48-54: setUpdateTrigger(prev => prev + 1)
\* an updater that adds one to the counter as the provider last rendered it
IncrementRendered(prev, rendered) == rendered + 1

\* lines 49 and 53: the updater prev => prev + 1, applied by React to the
\* state as the updates queued before it left it; rendered is the counter in
\* the provider's last render, which the updater does not read
Increment(prev, rendered) == prev + 1

NotifyHikeChanged ==
    /\ updateTrigger' = Increment(updateTrigger, pendingEffects.rendered)
    /\ pendingEffects' = [pendingEffects EXCEPT !.trigger = TRUE]

\* DataContext.tsx lines 52-54: setUpdateTrigger(prev => prev + 1)
NotifyObservationChanged ==
    /\ updateTrigger' = Increment(updateTrigger, pendingEffects.rendered)
    /\ pendingEffects' = [pendingEffects EXCEPT !.trigger = TRUE]

\* the effects of the first commit: the list screen's effect on [hikes], then
\* the provider's two effects, each calling refreshHikes
MountEffects ==
    /\ pendingEffects.mount
    /\ pendingEffects' = [pendingEffects EXCEPT !.mount = FALSE]
    /\ filteredHikes' = contextHikes
    /\ refreshes' = refreshes \o <<Reading, Reading>>
    /\ UNCHANGED <<connVars, resetPc, dbVars, faults, last, imp, exported,
                   updateTrigger, contextHikes, isImporting, searchQuery, searches, bus>>

\* DataContext.tsx lines 57-59: the effect on [updateTrigger, refreshHikes]
TriggerEffect ==
    /\ ~pendingEffects.mount /\ pendingEffects.trigger
    /\ Len(refreshes) < MaxRefreshes
    /\ pendingEffects' = [pendingEffects EXCEPT !.trigger = FALSE,
                                                !.rendered = updateTrigger]
    /\ refreshes' = Append(refreshes, Reading)
    /\ UNCHANGED <<connVars, resetPc, dbVars, faults, last, imp, exported,
                   updateTrigger, contextHikes, filteredHikes, isImporting, searchQuery, searches, bus>>

\* DataContext.tsx line 30: the getAllHikes statement of the oldest call that
\* has not read yet
RefreshReads ==
    /\ Opened
    /\ \E k \in 1..Len(refreshes) :
        /\ refreshes[k].st = "reading"
        /\ \A j \in 1..(k - 1) : refreshes[j].st = "read"
        /\ \E data \in getAllHikes(DB) :
            refreshes' = [refreshes EXCEPT ![k] = [st |-> "read", data |-> data]]
    /\ UNCHANGED <<connVars, resetPc, dbVars, faults, last, imp, exported,
                   updateTrigger, contextHikes, pendingEffects, filteredHikes, isImporting, searchQuery, searches, bus>>

\* DataContext.tsx line 31: setHikes(data)
RefreshSetsHikes ==
    /\ refreshes # <<>> /\ Head(refreshes).st = "read"
    /\ contextHikes' = Head(refreshes).data
    /\ refreshes' = Tail(refreshes)
    /\ pendingEffects' = [pendingEffects EXCEPT !.hikes = TRUE]
    /\ UNCHANGED <<connVars, resetPc, dbVars, faults, last, imp, exported,
                   updateTrigger, filteredHikes, isImporting, searchQuery, searches, bus>>

\* index.tsx lines 65-75 with no filter and no search text
HikesEffect ==
    /\ ~pendingEffects.mount /\ pendingEffects.hikes
    /\ pendingEffects' = [pendingEffects EXCEPT !.hikes = FALSE]
    /\ IF Blank(searchQuery)
       THEN filteredHikes' = contextHikes /\ UNCHANGED searches
       ELSE /\ Len(searches) < MaxSearches
            /\ searches' = Append(searches, Searching(searchQuery))
            /\ UNCHANGED filteredHikes
    /\ UNCHANGED <<connVars, resetPc, dbVars, faults, last, imp, exported,
                   updateTrigger, contextHikes, refreshes, isImporting, searchQuery, bus>>

\* index.tsx lines 84-100: handleSearch(query) up to its await
HandleSearch(queries) ==
    /\ Opened
    /\ \E query \in queries :
        /\ searchQuery' = query
        /\ IF Blank(query)
           THEN filteredHikes' = contextHikes /\ UNCHANGED searches
           ELSE /\ Len(searches) < MaxSearches
                /\ searches' = Append(searches, Searching(query))
                /\ UNCHANGED filteredHikes
    /\ UNCHANGED <<connVars, resetPc, dbVars, faults, last, imp, exported,
                   updateTrigger, contextHikes, refreshes, pendingEffects, isImporting, bus>>

\* index.tsx line 93, part_006 lines 226-229: the SELECT of the oldest
\* searchHikes call that has not read yet
SearchReads ==
    /\ Opened
    /\ \E k \in 1..Len(searches) :
        /\ searches[k].st = "reading"
        /\ \A j \in 1..(k - 1) : searches[j].st = "read"
        /\ \E data \in searchHikes(DB, Str(searches[k].query)) :
            searches' = [searches EXCEPT ![k] = [@ EXCEPT !.st = "read", !.data = data]]
    /\ UNCHANGED <<connVars, resetPc, dbVars, faults, last, imp, exported,
                   updateTrigger, contextHikes, refreshes, pendingEffects, filteredHikes,
                   isImporting, searchQuery, bus>>

\* index.tsx line 94: setFilteredHikes(results), when the call resolves
SearchSetsFiltered ==
    /\ searches # <<>> /\ Head(searches).st = "read"
    /\ filteredHikes' = Head(searches).data
    /\ searches' = Tail(searches)
    /\ UNCHANGED <<connVars, resetPc, dbVars, faults, last, imp, exported,
                   updateTrigger, contextHikes, refreshes, pendingEffects,
                   isImporting, searchQuery, bus>>

\* a handler that awaits one repository call and then calls notifyHikeChanged;
\* an error of the call skips the notification
ScreenCall(op, arg, out) ==
    /\ SetDb(out.d)
    /\ last' = Completed(op, arg, out)
    /\ IF out.ok THEN NotifyHikeChanged ELSE UNCHANGED <<updateTrigger, pendingEffects>>
    /\ UNCHANGED <<connVars, resetPc, faults, imp, exported,
                   contextHikes, refreshes, filteredHikes, isImporting, searchQuery, searches, bus>>

ScreensIdle == ~isImporting /\ updateTrigger < MaxTrigger

\* HikeConfirmScreen.saveToDB: insertHike, then notifyHikeChanged
HandleSave(inputs) ==
    /\ Opened /\ ScreensIdle /\ hikeSeq < MaxHikeSeq
    /\ \E hike \in inputs : ScreenCall("insertHike", hike, insertHike(DB, hike, FALSE))

\* ObservationConfirmScreen.handleSave: insertObservation, then
\* notifyObservationChanged; an error of the call skips the notification
HandleSaveObservation(inputs) ==
    /\ Opened /\ ScreensIdle /\ obsSeq < MaxObsSeq
    /\ \E o \in inputs :
        LET out == insertObservation(DB, o, FALSE)
        IN  /\ SetDb(out.d)
            /\ last' = Completed("insertObservation", o, out)
            /\ IF out.ok THEN NotifyObservationChanged
               ELSE UNCHANGED <<updateTrigger, pendingEffects>>
    /\ UNCHANGED <<connVars, resetPc, faults, imp, exported,
                   contextHikes, refreshes, filteredHikes, isImporting, searchQuery, searches, bus>>

\* index.tsx lines 187-190: deleteHike of a listed hike, then notifyHikeChanged
HandleDelete ==
    /\ Opened /\ ScreensIdle
    /\ \E k \in 1..Len(filteredHikes) :
        ScreenCall("deleteHike", filteredHikes[k].id,
                   deleteHike(DB, Val(filteredHikes[k].id), FALSE))

\* index.tsx lines 160-164: the handler up to the first await of the import
HandleImportFromDialog(decoded) ==
    /\ ScreensIdle
    /\ ImportStart(1, decoded)
    /\ isImporting' = (imp'[1].pc # "done")
    /\ UNCHANGED <<updateTrigger, contextHikes, refreshes, pendingEffects, filteredHikes,
                   searchQuery, searches, bus>>

\* the import goes on; index.tsx lines 164-174 when it returns: the alert,
\* notifyHikeChanged if it succeeded, setIsImporting(false)
HandleImportGoesOn ==
    /\ isImporting
    /\ ImportFind(1) \/ ImportInsertHike(1) \/ ImportInsertObservation(1)
    /\ isImporting' = (imp'[1].pc # "done")
    /\ IF imp'[1].pc = "done" /\ imp'[1].result.success
       THEN NotifyHikeChanged
       ELSE UNCHANGED <<updateTrigger, pendingEffects>>
    /\ UNCHANGED <<contextHikes, refreshes, filteredHikes, searchQuery, searches, bus>>

(***************************************************************************)
(* The event bus events (class TypedEventBus).  It has one event,          *)
(* map:locationSelected.  listeners is the Set of the event in insertion   *)
(* order; calls are the listener invocations of the last emit, each with   *)
(* the payload it received; warned are the listeners whose exception emit  *)
(* caught.  A listener is named after what its body does: hikeForm and     *)
(* confirm are the screens' listeners, which set form fields; throws       *)
(* throws; offAll calls the unsubscribe function of every listener, its    *)
(* own included.                                                           *)
(***************************************************************************)
Listeners == {"hikeForm", "confirm", "throws", "offAll"}

NoListeners == [listeners |-> <<>>, calls |-> <<>>, warned |-> <<>>]

\* s.delete(listener)
Delete(set, l) == SelectSeq(set, LAMBDA x : x # l)

\* set.add(listener): a listener the Set holds is not added again
Add(set, l) == IF \E k \in 1..Len(set) : set[k] = l THEN set ELSE Append(set, l)

\* l(payload) inside try / catch: the call, then the effect of the body
Invoke(b, l, payload) ==
    LET called == [b EXCEPT !.calls = Append(@, <<l, payload>>)]
    IN  CASE l = "throws" -> [called EXCEPT !.warned = Append(@, l)]
          [] l = "offAll" -> [called EXCEPT !.listeners = <<>>]
          [] OTHER -> called

RECURSIVE forEachLive(_, _, _)
\* set.forEach(...) on the Set itself: a listener deleted before its turn is
\* passed over
forEachLive(rest, b, payload) ==
    IF rest = <<>> THEN b
    ELSE IF \E k \in 1..Len(b.listeners) : b.listeners[k] = Head(rest)
    THEN forEachLive(Tail(rest), Invoke(b, Head(rest), payload), payload)
    ELSE forEachLive(Tail(rest), b, payload)

\* an emit that walks the Set instead of a copy of it
emitLive(b, payload) ==
    forEachLive(b.listeners, [b EXCEPT !.calls = <<>>, !.warned = <<>>], payload)

RECURSIVE forEach(_, _, _)
\* [...set].forEach(l => { try { l(payload) } catch (e) { console.warn(...) } })
forEach(rest, b, payload) ==
    IF rest = <<>> THEN b
    ELSE forEach(Tail(rest), Invoke(b, Head(rest), payload), payload)

\* emit(event, payload)
emit(b, payload) ==
    forEach(b.listeners, [b EXCEPT !.calls = <<>>, !.warned = <<>>], payload)

\* the payload of map:locationSelected
Location(address, latitude, longitude) ==
    [address |-> Str(address), latitude |-> Num(latitude), longitude |-> Num(longitude)]

\* events.on('map:locationSelected', listener)
On(listeners) ==
    /\ \E l \in listeners : bus' = [bus EXCEPT !.listeners = Add(@, l)]
    /\ UNCHANGED <<connVars, resetPc, dbVars, faults, last, imp, exported,
                   updateTrigger, contextHikes, refreshes, pendingEffects, filteredHikes,
                   isImporting, searchQuery, searches>>

\* the function events.on returned, called
Off ==
    /\ \E k \in 1..Len(bus.listeners) :
          bus' = [bus EXCEPT !.listeners = Delete(@, bus.listeners[k])]
    /\ UNCHANGED <<connVars, resetPc, dbVars, faults, last, imp, exported,
                   updateTrigger, contextHikes, refreshes, pendingEffects, filteredHikes,
                   isImporting, searchQuery, searches>>

\* MapPickerScreen.handleConfirm: without a selected location, or when
\* reverseGeocode rejects, nothing is emitted
HandleConfirm(selections) ==
    /\ \E selectedLocation \in selections \cup {Null} :
        \E geocoded \in BOOLEAN :
            IF selectedLocation = Null \/ ~geocoded
            THEN UNCHANGED bus
            ELSE bus' = emit(bus, Location(<<"a">>, selectedLocation[1], selectedLocation[2]))
    /\ UNCHANGED <<connVars, resetPc, dbVars, faults, last, imp, exported,
                   updateTrigger, contextHikes, refreshes, pendingEffects, filteredHikes,
                   isImporting, searchQuery, searches>>

(***************************************************************************)
(* The store specification: the process opens the database and the         *)
(* screens call the repository.                                            *)
(***************************************************************************)
InitConn ==
    /\ dbPromise = [st |-> "null", h |-> 0]
    /\ handles = 0
    /\ schemaEnsured = FALSE
    /\ foreignKeys = FALSE
    /\ callPc = [c \in Calls |-> "idle"]
    /\ callStmts = [c \in Calls |-> 0]
    /\ callRet = [c \in Calls |-> 0]

InitDb ==
    /\ hikes = {} /\ observations = {}
    /\ hikeSeq = 0 /\ obsSeq = 0
    /\ resetPc = "idle"
    /\ last = NoCall
    /\ imp = [i \in {1} |-> ImportIdle]
    /\ exported = NoExport
    /\ updateTrigger = 0
    /\ contextHikes = <<>>
    /\ refreshes = <<>>
    /\ pendingEffects = [mount |-> TRUE, trigger |-> FALSE, hikes |-> FALSE, rendered |-> 0]
    /\ filteredHikes = <<>>
    /\ isImporting = FALSE
    /\ searchQuery = <<>>
    /\ searches = <<>>
    /\ bus = NoListeners

Init ==
    /\ InitConn
    /\ InitDb
    /\ faults = 0

Next ==
    \/ OpenDatabase({1})
    \/ OpenDatabaseAsyncSettles
    \/ InsertHike({SavedHike})
    \/ UpdateHike({EditedHike})
    \/ DeleteHike
    \/ DeleteAllHikesFirst
    \/ DeleteAllHikesSecond
    \/ InsertObservation(SavedObservations)
    \/ UpdateObservation({EditedObservation})
    \/ DeleteObservation

Spec == Init /\ [][Next]_vars

(***************************************************************************)
(* The connection specification: openDatabase calls that may overlap, as   *)
(* those of initializeDatabase and of the provider's first refreshes do.   *)
(***************************************************************************)
InitOpen ==
    /\ InitConn
    /\ InitDb
    /\ faults \in 0..MaxFaults

NextOpen ==
    \/ OpenDatabase(Calls)
    \/ OpenDatabaseAsyncSettles

SpecOpen == InitOpen /\ [][NextOpen]_vars

(***************************************************************************)
(* Claims about the store.                                                 *)
(***************************************************************************)
StoredHike(id) == \E r \in hikes : r.id = id

\* C1: once deleteHike(id) has completed for a stored hike, no observation
\* with that hikeId is left, so getObservationsByHikeId(id) can only return
\* the empty list.
C1_DeleteHikeLeavesNoObservation ==
    [][\A id \in HikeIds :
         (StoredHike(id) /\ DeleteHikeOf(id) /\ last'.ok)
            => /\ \A o \in observations' : o.hikeId # Num(id)
               /\ getObservationsByHikeId(DB', id) = {<<>>}]_vars

\* C2: whenever no repository call is in progress, every stored observation's
\* hikeId is the id of a stored hike.
C2_ObservationsReferenceLiveHikes ==
    resetPc = "idle" =>
        \A o \in observations : \E r \in hikes : Num(r.id) = o.hikeId

(***************************************************************************)
(* Claims about the connection.                                            *)
(***************************************************************************)
RECURSIVE SumOver(_, _)
SumOver(f, S) ==
    IF S = {} THEN 0
    ELSE LET x == CHOOSE y \in S : TRUE IN f[x] + SumOver(f, S \ {x})

NoOpenFailure ==
    /\ dbPromise.st # "rejected"
    /\ \A c \in Calls : callPc[c] # "rejected"

\* C9: while no open or schema statement fails, all openDatabase calls return
\* the same handle, and the four schema statements are executed by one call
\* only, once each.
C9_OneHandleSchemaOnce ==
    NoOpenFailure =>
        /\ \A c \in Calls : \A e \in Calls :
             (callPc[c] = "returned" /\ callPc[e] = "returned") => callRet[c] = callRet[e]
        /\ Cardinality({c \in Calls : callStmts[c] > 0}) <= 1
        /\ SumOver(callStmts, Calls) <= SchemaStatements

(***************************************************************************)
(* The import specification: one importHikeFromJson call at a time, with   *)
(* the saves and deletions of the screens between the calls, on a          *)
(* connection whose statements may fail.                                   *)
(***************************************************************************)
Stored(id, hike) == RowToHike(WithId(id, HikeColumns(hike)))
StoredObservation(id, o) == RowToObservation(WithId(id, ObservationColumns(o)))

\* an export of a described hike without observations, and one of a hike with one
ExportedPlain ==
    exportHikeToJson(Stored(1, [SavedHike EXCEPT !.description = Str(<<"b">>)]), <<>>)
ExportedWithObservation ==
    exportHikeToJson(Stored(1, EditedHike), <<StoredObservation(1, EditedObservation)>>)

\* a hand-made text whose only observation entry has no observation text
PartialText ==
    ExportJson(Stored(1, SavedHike),
               <<[StoredObservation(1, EditedObservation) EXCEPT !.observation = Undef]>>)

\* texts that do not decode: no JSON at all, and a hike with a name only
NoJsonText == <<"a", "b">>
NameOnlyText == <<"{", "\"", "name", "\"", ":", "\"", "a", "\"", "}">>

ImportTexts == {ExportedPlain, ExportedWithObservation, PartialText, NoJsonText, NameOnlyText}
DecodedImportTexts == [text \in ImportTexts |-> parseImportJson(text)]

InitImport ==
    /\ InitConn
    /\ InitDb
    /\ faults \in 0..MaxFaults

NextImport ==
    \/ OpenDatabase({1})
    \/ OpenDatabaseAsyncSettles
    \/ ImportHikeFromJson(DecodedImportTexts) /\ UNCHANGED uiVars
    \/ ImportsQuiet /\ InsertHike({SavedHike})
    \/ ImportsQuiet /\ DeleteHike

SpecImport == InitImport /\ [][NextImport]_vars

\* call i returns in this step, having decoded its text
ImportReturns(i) == imp[i].pc \notin {"idle", "done"} /\ imp'[i].pc = "done"

\* a stored row and a decoded hike agree on the natural key
SameNaturalKey(row, data) ==
    /\ row.name = Get(data, "name")
    /\ row.location = Get(data, "location")
    /\ row.date = Get(data, "date")
    /\ row.lengthKm = Get(data, "lengthKm")
    /\ row.difficulty = Get(data, "difficulty")
    /\ (row.parkingAvailable = Num(1)) <=> (Get(data, "parkingAvailable") = Bool(TRUE))

\* the store held a hike with the natural key of the decoded hike when the call began
DuplicateBefore(call) == \E r \in call.before.hikes : SameNaturalKey(r, call.data)

\* C3: an importHikeFromJson call whose decoded hike has the natural key of a
\* hike stored when the call began returns success = false, and the stored
\* hikes and observations are then those the call found.
C3_DuplicateImportWritesNothing ==
    [][\A i \in DOMAIN imp :
         (ImportReturns(i) /\ DuplicateBefore(imp'[i]))
            => /\ imp'[i].settled = "resolved"
               /\ ~imp'[i].result.success
               /\ hikes' = imp'[i].before.hikes
               /\ observations' = imp'[i].before.observations]_vars

C3_Witness ==
    \E i \in DOMAIN imp :
        /\ imp[i].pc = "done" /\ imp[i].data # Undef /\ DuplicateBefore(imp[i])
        /\ ~imp[i].result.success /\ imp[i].failure = ""
        /\ Get(imp[i].data, "description") # Undef
        /\ hikes = imp[i].before.hikes

\* C4: a finished importHikeFromJson call has resolved, never rejected, and
\* when decoding, the duplicate lookup, the hike insert or an observation
\* insert failed, it resolved to success = false with the message of that
\* failure.
C4_ImportNeverRejects ==
    \A i \in DOMAIN imp :
        imp[i].pc = "done"
            => /\ imp[i].settled = "resolved"
               /\ imp[i].failure # ""
                    => imp[i].result =
                         [success |-> FALSE, message |-> <<imp[i].failure>>, hikeId |-> Undef]

\* a decode failure, and a failed observation insert after the hike insert
C4_Witness ==
    \E i \in DOMAIN imp :
        /\ imp[i].pc = "done" /\ imp[i].failure = NotNullError
        /\ imp[i].hikeId # Undef
        /\ imp[i].result.message = <<NotNullError>>

\* the rows call i added
AddedHikes(call) == hikes' \ call.before.hikes
AddedObservations(call) == observations' \ call.before.observations

\* C5: an importHikeFromJson call that decoded its text, found no stored hike
\* with the decoded natural key and met no failure returns success = true
\* with the new hike's id; the store has gained exactly that hike, with
\* addedToCalendar false, and one observation per embedded entry, each with
\* the returned hikeId, and has lost nothing.
C5_ImportAddsHikeAndObservations ==
    [][\A i \in DOMAIN imp :
         (ImportReturns(i) /\ ~DuplicateBefore(imp'[i]) /\ imp'[i].failure = "")
            => LET call == imp'[i]
               IN  /\ call.result.success
                   /\ call.result.hikeId = call.hikeId
                   /\ IsNum(call.hikeId)
                   /\ call.before.hikes \subseteq hikes'
                   /\ call.before.observations \subseteq observations'
                   /\ Cardinality(AddedHikes(call)) = 1
                   /\ \A r \in AddedHikes(call) :
                        /\ Num(r.id) = call.result.hikeId
                        /\ r.addedToCalendar = Num(0)
                        /\ SameNaturalKey(r, call.data)
                   /\ Cardinality(AddedObservations(call)) = Len(ImportedEntries(call.data))
                   /\ \A o \in AddedObservations(call) :
                        o.hikeId = call.result.hikeId]_vars

C5_Witness ==
    \E i \in DOMAIN imp :
        /\ imp[i].pc = "done" /\ imp[i].result.success
        /\ Len(ImportedEntries(imp[i].data)) = 1
        /\ imp[i].before.hikes # {}
        /\ \E o \in observations : o.hikeId = imp[i].result.hikeId

(***************************************************************************)
(* The codec specification: hikes and observations are saved, a stored     *)
(* hike is exported and the exported text is decoded.                      *)
(***************************************************************************)
\* a hike with every optional field, and a valid hike whose name holds a brace
DescribedHike ==
    [Hike(<<"a">>, <<"b">>, <<"1">>, FALSE, 12, Easy) EXCEPT
        !.description = Str(<<"b", "\"">>), !.elevationGainM = Num(21), !.rating = Num(2),
        !.photoUri = Str(<<"a">>), !.latitude = Num(1), !.longitude = Num(2),
        !.addedToCalendar = Bool(TRUE)]
BraceHike == Hike(<<"a", "{">>, <<"b">>, <<"1">>, TRUE, 7, Hard)

CodecHikes == {DescribedHike, BraceHike}
CodecObservations ==
    {Observation(h, <<"a", "}">>, 1, Undef) : h \in HikeIds}
        \cup {[Observation(h, <<"b">>, 2, Str(<<"a">>)) EXCEPT !.photoUri = Str(<<"a">>)] :
                h \in HikeIds}

NextCodec ==
    \/ OpenDatabase({1})
    \/ OpenDatabaseAsyncSettles
    \/ InsertHike(CodecHikes)
    \/ InsertObservation(CodecObservations)
    \/ ExportHikeToJson
    \/ ParseImportJson

SpecCodec == Init /\ [][NextCodec]_vars

\* the decoded entry holds the text, timestamp and comments of the observation
SameObservation(entry, obs) ==
    /\ Get(entry, "observation") = obs.observation
    /\ Get(entry, "timestamp") = obs.timestamp
    /\ Get(entry, "comments") = obs.comments

\* C6: decoding the export of a stored hike succeeds and yields the hike's
\* name, location, date, parkingAvailable, lengthKm, difficulty, description,
\* elevationGainM, rating, latitude and longitude, and one entry per
\* observation of the hike with its text, timestamp and comments.
C6_ExportThenParseRoundTrip ==
    exported.st = "decoded"
        => LET h == exported.hike
               data == exported.decoded.res
               entries == Get(data, "observations")
           IN  /\ exported.decoded.ok
               /\ Get(data, "name") = h.name
               /\ Get(data, "location") = h.location
               /\ Get(data, "date") = h.date
               /\ Get(data, "parkingAvailable") = h.parkingAvailable
               /\ Get(data, "lengthKm") = h.lengthKm
               /\ Get(data, "difficulty") = h.difficulty
               /\ Get(data, "description") = h.description
               /\ Get(data, "elevationGainM") = h.elevationGainM
               /\ Get(data, "rating") = h.rating
               /\ Get(data, "latitude") = h.latitude
               /\ Get(data, "longitude") = h.longitude
               /\ entries[1] = "arr"
               /\ Len(entries[2]) = Len(exported.observations)
               /\ \A k \in 1..Len(entries[2]) :
                    SameObservation(entries[2][k], exported.observations[k])

(***************************************************************************)
(* The duplicate specification: hikes are saved and findDuplicateHike is   *)
(* asked about a hike, about the hikes that differ from it in one field of *)
(* the natural key, and about one that differs in every other field.       *)
(***************************************************************************)
KeyHike == Hike(<<"a">>, <<"b">>, <<"1">>, TRUE, 7, Hard)

KeyVariants ==
    {[KeyHike EXCEPT !.name = Str(<<"A">>)],
     [KeyHike EXCEPT !.location = Str(<<"B">>)],
     [KeyHike EXCEPT !.date = Str(<<"2">>)],
     [KeyHike EXCEPT !.lengthKm = Num(3)],
     [KeyHike EXCEPT !.difficulty = Str(Easy)],
     [KeyHike EXCEPT !.parkingAvailable = Bool(FALSE)]}

OtherFieldsVariant ==
    [KeyHike EXCEPT !.description = Str(<<"b">>), !.rating = Num(2),
                    !.elevationGainM = Num(21), !.photoUri = Str(<<"a">>),
                    !.latitude = Num(1), !.longitude = Num(2)]

DupHikes == {KeyHike, OtherFieldsVariant} \cup KeyVariants

NextDup ==
    \/ OpenDatabase({1})
    \/ OpenDatabaseAsyncSettles
    \/ InsertHike(DupHikes)
    \/ DeleteHike
    \/ FindDuplicateHike(DupHikes)

SpecDup == Init /\ [][NextDup]_vars

\* a stored row and a hike agree on the six fields of the natural key
NaturalKeyEqual(row, c) ==
    /\ RowToHike(row).name = c.name
    /\ RowToHike(row).location = c.location
    /\ RowToHike(row).date = c.date
    /\ RowToHike(row).lengthKm = c.lengthKm
    /\ RowToHike(row).difficulty = c.difficulty
    /\ RowToHike(row).parkingAvailable = c.parkingAvailable

\* C7: findDuplicateHike(c) returns a hike exactly when a stored hike equals c
\* on the six natural-key fields, and the hike it returns is such a stored
\* hike; the other fields play no part.
C7_DuplicateIsNaturalKeyMatch ==
    last.op = "findDuplicateHike"
        => /\ last.res # Null <=> \E r \in hikes : NaturalKeyEqual(r, last.arg)
           /\ last.res # Null
                => \E r \in hikes :
                     NaturalKeyEqual(r, last.arg) /\ last.res = Object(RowToHike(r))

\* a match across different descriptions while a hike that differs in the
\* case of its name only is stored as well
C7_Witness ==
    /\ last.op = "findDuplicateHike" /\ last.res # Null
    /\ last.res[2].description # OrNull(last.arg.description)
    /\ \E r \in hikes : r.name = Str(<<"A">>) /\ ~NaturalKeyEqual(r, last.arg)

(***************************************************************************)
(* The search specification: hikes are saved and deleted, and the list     *)
(* screen searches by name and filters by criteria.                        *)
(***************************************************************************)
SearchableHikes ==
    {Hike(<<"a">>, <<"b">>, <<"1">>, TRUE, 7, Hard),
     Hike(<<"B">>, <<"a">>, <<"2">>, FALSE, 3, Easy),
     Hike(<<"a", "b">>, <<"b">>, <<"1">>, TRUE, 12, Hard)}

SearchQueries == {Str(<<"a">>), Str(<<"b">>), Str(<<"_">>), Str(<<"%">>)}

NoCriteria == Criteria(Undef, Undef, Undef, Undef, Undef, Undef, Undef)

\* no criterion, each criterion alone, and some conjunctions
SearchCriteria ==
    {NoCriteria,
     [NoCriteria EXCEPT !.name = Str(<<"a">>)],
     [NoCriteria EXCEPT !.name = Str(<<"_">>)],
     [NoCriteria EXCEPT !.location = Str(<<"B">>)],
     [NoCriteria EXCEPT !.minLen = Num(5)],
     [NoCriteria EXCEPT !.maxLen = Num(7)],
     [NoCriteria EXCEPT !.date = Str(<<"1">>)],
     [NoCriteria EXCEPT !.difficulty = Str(Hard)],
     [NoCriteria EXCEPT !.parking = Bool(TRUE)],
     [NoCriteria EXCEPT !.parking = Bool(FALSE)],
     [NoCriteria EXCEPT !.minLen = Num(5), !.difficulty = Str(Hard)],
     [NoCriteria EXCEPT !.minLen = Num(5), !.maxLen = Num(7)],
     [NoCriteria EXCEPT !.name = Str(<<"a">>), !.location = Str(<<"B">>),
                        !.parking = Bool(TRUE)],
     Criteria(Str(<<"a">>), Str(<<"b">>), Num(5), Num(7), Str(<<"1">>), Str(Hard),
              Bool(TRUE))}

NextSearch ==
    \/ OpenDatabase({1})
    \/ OpenDatabaseAsyncSettles
    \/ InsertHike(SearchableHikes)
    \/ DeleteHike
    \/ SearchHikes(SearchQueries)
    \/ AdvancedSearchHikes(SearchCriteria)
    \/ GetAllHikes

SpecSearch == Init /\ [][NextSearch]_vars

RECURSIVE IsPrefix(_, _)
\* p is the beginning of s, letters compared without regard to case
IsPrefix(p, s) ==
    \/ p = <<>>
    \/ s # <<>> /\ Lower(Head(p)) = Lower(Head(s)) /\ IsPrefix(Tail(p), Tail(s))

RECURSIVE Contains(_, _)
\* sub occurs in s, letters compared without regard to case
Contains(s, sub) == IsPrefix(sub, s) \/ (s # <<>> /\ Contains(Tail(s), sub))

\* the row satisfies every criterion that is present
Satisfies(row, c) ==
    /\ c.name # Undef => Contains(Val(row.name), Val(c.name))
    /\ c.location # Undef => Contains(Val(row.location), Val(c.location))
    /\ c.minLen # Undef => Val(row.lengthKm) >= Val(c.minLen)
    /\ c.maxLen # Undef => Val(row.lengthKm) <= Val(c.maxLen)
    /\ c.date # Undef => row.date = c.date
    /\ c.difficulty # Undef => row.difficulty = c.difficulty
    /\ c.parking # Undef => RowToHike(row).parkingAvailable = c.parking

\* C10: advancedSearchHikes returns exactly the stored hikes that satisfy
\* every criterion that is present, each once; with no criterion present it
\* returns every stored hike.
C10_AdvancedSearchIsConjunction ==
    last.op = "advancedSearchHikes"
        => /\ {last.res[k] : k \in 1..Len(last.res)}
                = {RowToHike(r) : r \in {q \in hikes : Satisfies(q, last.arg)}}
           /\ Len(last.res) = Cardinality({q \in hikes : Satisfies(q, last.arg)})

(***************************************************************************)
(* The live specification: the provider and the list screen are mounted,   *)
(* the screens save, delete and import hikes, and the provider refreshes.  *)
(* No statement fails.                                                     *)
(***************************************************************************)
LiveTexts == {ExportedPlain, ExportedWithObservation, PartialText, NoJsonText}
DecodedLiveTexts == [text \in LiveTexts |-> parseImportJson(text)]

NextLive ==
    \/ OpenDatabase({1})
    \/ OpenDatabaseAsyncSettles
    \/ MountEffects
    \/ TriggerEffect
    \/ RefreshReads
    \/ RefreshSetsHikes
    \/ HikesEffect
    \/ HandleSave({SavedHike})
    \/ HandleDelete
    \/ HandleImportFromDialog(DecodedLiveTexts)
    \/ HandleImportGoesOn

SpecLive == Init /\ [][NextLive]_vars

\* nothing is in progress: no import, no refresh, no scheduled effect
Settled ==
    /\ ~isImporting
    /\ refreshes = <<>>
    /\ ~pendingEffects.mount /\ ~pendingEffects.trigger /\ ~pendingEffects.hikes

\* C8: once the calls, refreshes and effects that follow the screens'
\* mutating calls have run, the context's hikes are the stored hikes in
\* getAllHikes order and the list screen shows them.
C8_ObserversSeeTheStore ==
    Settled => contextHikes \in getAllHikes(DB) /\ filteredHikes = contextHikes

(***************************************************************************)
(* Claims about the order and the contents of query results.               *)
(***************************************************************************)
\* the list holds each stored hike once and nothing else
ListsStoredHikes(list) ==
    /\ Len(list) = Cardinality(hikes)
    /\ {list[k] : k \in 1..Len(list)} = {RowToHike(r) : r \in hikes}

\* C11: getAllHikes, and advancedSearchHikes with no criterion, return every
\* stored hike once, a later date before an earlier one and, among equal
\* dates, a name never after one that sorts before it.
C11_AllHikesByDateThenName ==
    (last.op = "getAllHikes" \/ (last.op = "advancedSearchHikes" /\ last.arg = NoCriteria))
        => /\ ListsStoredHikes(last.res)
           /\ \A i \in 1..Len(last.res) : \A j \in 1..Len(last.res) :
                i < j =>
                    /\ ~StrLess(Val(last.res[i].date), Val(last.res[j].date))
                    /\ last.res[i].date = last.res[j].date
                         => ~StrLess(Val(last.res[j].name), Val(last.res[i].name))

C11_Witness ==
    /\ last.op = "getAllHikes" /\ Len(last.res) = 2
    /\ last.res[1].date # last.res[2].date
    /\ last.res[1].id = Num(2)

(***************************************************************************)
(* Claims about updates.                                                   *)
(***************************************************************************)
\* C12: updateHike and updateObservation called with a record that has no id
\* fail with the error that says the id is required, and the tables and
\* their sequences are as before the call.
C12_UpdateWithoutIdFails ==
    [][/\ (UpdateHike({EditedHike}) /\ last'.arg.id = Undef)
            => /\ ~last'.ok /\ last'.err = "Hike ID is required for update"
               /\ UNCHANGED dbVars
       /\ (UpdateObservation({EditedObservation}) /\ last'.arg.id = Undef)
            => /\ ~last'.ok /\ last'.err = "Observation ID is required for update"
               /\ UNCHANGED dbVars]_vars

C12_Witness ==
    /\ last.op = "updateHike" /\ last.arg.id = Undef /\ ~last.ok
    /\ hikes # {} /\ observations # {}

(***************************************************************************)
(* The record specification: hikes are saved, rewritten and read back.     *)
(***************************************************************************)
\* a hike with every optional field set and none of them zero or empty
FullHike ==
    [Hike(<<"b">>, <<"a">>, <<"2">>, FALSE, 3, Easy) EXCEPT
        !.description = Str(<<"a">>), !.elevationGainM = Num(21), !.rating = Num(4),
        !.photoUri = Str(<<"b">>), !.latitude = Num(1), !.longitude = Num(2),
        !.addedToCalendar = Bool(TRUE)]

NextRecord ==
    \/ OpenDatabase({1})
    \/ OpenDatabaseAsyncSettles
    \/ InsertHike({SavedHike})
    \/ UpdateHike({EditedHike, FullHike, SavedHike})
    \/ GetHikeById

SpecRecord == Init /\ [][NextRecord]_vars

\* a field read back equals the field written; an optional field that was not
\* given reads as null
SameField(read, written) == read = written \/ (written = Undef /\ read = Null)

\* the hike read back equals the hike written, a flag not given reading as false
SameHike(read, h) ==
    /\ read.id = h.id
    /\ read.name = h.name /\ read.location = h.location /\ read.date = h.date
    /\ read.parkingAvailable = h.parkingAvailable
    /\ read.lengthKm = h.lengthKm /\ read.difficulty = h.difficulty
    /\ SameField(read.description, h.description)
    /\ SameField(read.elevationGainM, h.elevationGainM)
    /\ SameField(read.rating, h.rating)
    /\ SameField(read.photoUri, h.photoUri)
    /\ SameField(read.latitude, h.latitude)
    /\ SameField(read.longitude, h.longitude)
    /\ read.addedToCalendar = h.addedToCalendar
         \/ (h.addedToCalendar = Undef /\ read.addedToCalendar = Bool(FALSE))

\* C13: getHikeById(h.id) right after updateHike(h) completed for a stored
\* id returns a hike equal to h in every field.
C13_UpdateThenGetReturnsRecord ==
    [][(/\ last.op = "updateHike" /\ last.ok
        /\ StoredHike(Val(last.arg.id))
        /\ GetHikeById
        /\ last'.arg = last.arg.id)
           => /\ last'.res # Null
              /\ SameHike(last'.res[2], last.arg)]_vars

(***************************************************************************)
(* The parse specification: texts of the import dialog are decoded.  The   *)
(* texts are the JSON objects that hold any part of the required fields    *)
(* of a hike.                                                              *)
(***************************************************************************)
RequiredFields ==
    <<"name", "location", "date", "parkingAvailable", "lengthKm", "difficulty">>
Required == {RequiredFields[k] : k \in 1..Len(RequiredFields)}

\* the JSON object that holds the fields in present, with the values of a hike
LackingText(present) ==
    StringifyObject(RequiredFields,
                    [k \in Required |-> IF k \in present THEN SavedHike[k] ELSE Undef])

LackingTexts == {LackingText(present) : present \in SUBSET Required}

NextParse ==
    \/ SetJsonText(LackingTexts)
    \/ ParseImportJson

SpecParse == Init /\ [][NextParse]_vars

\* the dialog's text, decoded, is the object holding the fields in present
DecodedLacking(present) ==
    /\ exported.st = "decoded"
    /\ exported.text = LackingText(present)

C15_SearchIsSubstringMatch ==
    last.op = "searchHikes"
        => /\ {last.res[k] : k \in 1..Len(last.res)}
                = {RowToHike(r) : r \in {q \in hikes : Contains(Val(q.name), Val(last.arg))}}
           /\ Len(last.res)
                = Cardinality({q \in hikes : Contains(Val(q.name), Val(last.arg))})
           /\ \A i \in 1..Len(last.res) : \A j \in 1..Len(last.res) :
                i < j => ~StrLess(Val(last.res[j].name), Val(last.res[i].name))

(***************************************************************************)
(* Claims about what the export leaves out, under the codec specification. *)
(***************************************************************************)
PhotoChoices == {Null, Str(<<"b">>)}

\* the hikes that differ from hike in photoUri and addedToCalendar at most
PhotoVariants(hike) ==
    {[hike EXCEPT !.photoUri = p, !.addedToCalendar = Bool(c)] :
        p \in PhotoChoices, c \in BOOLEAN}

\* the lists that differ from obsList in the photoUri of observations at most
ObservationPhotoVariants(obsList) ==
    {[k \in 1..Len(obsList) |-> [obsList[k] EXCEPT !.photoUri = photos[k]]] :
        photos \in [1..Len(obsList) -> PhotoChoices]}

\* C16: the export of a hike is the export of every hike that differs from
\* it in photoUri and addedToCalendar only and has the same observations up
\* to their photoUri; the text holds no photoUri property.
C16_ExportLeavesOutPhotoAndCalendar ==
    exported.st = "exported"
        => /\ \A hike \in PhotoVariants(exported.hike) :
                \A obsList \in ObservationPhotoVariants(exported.observations) :
                    exportHikeToJson(hike, obsList) = exported.text
           /\ \A k \in 1..Len(exported.text) :
                exported.text[k] \notin {"photoUri", "addedToCalendar"}

C16_Witness ==
    /\ exported.st = "exported"
    /\ exported.hike.photoUri # Null
    /\ exported.hike.addedToCalendar = Bool(TRUE)
    /\ \E k \in 1..Len(exported.observations) : exported.observations[k].photoUri # Null

(***************************************************************************)
(* The partial import specification: texts with two observation entries    *)
(* are imported, and a statement may fail.                                 *)
(***************************************************************************)
SecondObservation == Observation(1, <<"a">>, 1, Undef)

\* an export with two observations, and a hand-made text whose second entry
\* has no observation text
ExportedWithTwoObservations ==
    exportHikeToJson(Stored(1, SavedHike),
                     <<StoredObservation(1, EditedObservation),
                       StoredObservation(2, SecondObservation)>>)
PartialSecondText ==
    ExportJson(Stored(1, SavedHike),
               <<StoredObservation(1, EditedObservation),
                 [StoredObservation(2, SecondObservation) EXCEPT !.observation = Undef]>>)

PartialTexts == {ExportedWithTwoObservations, PartialSecondText, PartialText}
DecodedPartialTexts == [text \in PartialTexts |-> parseImportJson(text)]

NextPartial ==
    \/ OpenDatabase({1})
    \/ OpenDatabaseAsyncSettles
    \/ ImportHikeFromJson(DecodedPartialTexts) /\ UNCHANGED uiVars

SpecPartial == InitImport /\ [][NextPartial]_vars

\* an insertObservation of call i fails in this step
ObservationInsertFails(i) ==
    /\ imp[i].pc = "observations"
    /\ imp'[i].pc = "done"
    /\ imp'[i].failure # ""

\* C17: when an insertObservation of an importHikeFromJson call fails, the
\* hike insert having succeeded, the call returns success = false, and the
\* hike it inserted and the observations it inserted before the failure
\* are still stored.
C17_FailedImportIsNotRolledBack ==
    [][\A i \in DOMAIN imp :
         ObservationInsertFails(i)
            => /\ imp'[i].settled = "resolved"
               /\ ~imp'[i].result.success
               /\ \E r \in hikes' \ imp[i].before.hikes : Num(r.id) = imp[i].hikeId
               /\ Cardinality({o \in observations' \ imp[i].before.observations :
                                 o.hikeId = imp[i].hikeId}) = imp[i].k - 1
               /\ observations' = observations]_vars

C17_Witness ==
    \E i \in DOMAIN imp :
        /\ imp[i].pc = "done" /\ imp[i].failure # "" /\ imp[i].k = 2
        /\ ~imp[i].result.success
        /\ \E r \in hikes : Num(r.id) = imp[i].hikeId
        /\ \E o \in observations : o.hikeId = imp[i].hikeId

(***************************************************************************)
(* Claims about deletion.                                                  *)
(***************************************************************************)
\* C18: deleteHike(id) of a stored hike removes that hike and the
\* observations of that hike and nothing else: every other hike and every
\* observation of another hike stays as it was, and getAllHikes no longer
\* returns the hike.
C18_DeleteHikeRemovesHikeAndItsObservationsOnly ==
    [][\A id \in HikeIds :
         (StoredHike(id) /\ DeleteHikeOf(id) /\ last'.ok)
            => /\ hikes' = {r \in hikes : r.id # id}
               /\ observations' = {o \in observations : o.hikeId # Num(id)}
               /\ \A list \in getAllHikes(DB') :
                    \A k \in 1..Len(list) : list[k].id # Num(id)]_vars

\* C19: when deleteAllHikes completes, no hike and no observation is stored,
\* whatever was stored before.
C19_DeleteAllHikesEmptiesTheStore ==
    [][(DeleteAllHikesSecond /\ last'.ok) => (hikes' = {} /\ observations' = {})]_vars

(***************************************************************************)
(* The observation specification: observations of several hikes and times  *)
(* are saved, edited and deleted, and the detail screen lists those of a    *)
(* hike.                                                                   *)
(***************************************************************************)
TimedObservations == {Observation(h, <<"a">>, t, Undef) : h \in HikeIds, t \in {1, 3}}

NextObservations ==
    \/ OpenDatabase({1})
    \/ OpenDatabaseAsyncSettles
    \/ InsertHike({SavedHike})
    \/ InsertObservation(TimedObservations)
    \/ UpdateObservation({EditedObservation})
    \/ DeleteObservation
    \/ GetObservationsByHikeId

SpecObservations == Init /\ [][NextObservations]_vars

\* the stored observations of the hike
ObservationsOf(hikeId) == {o \in observations : o.hikeId = hikeId}

\* C20: getObservationsByHikeId(h) returns the stored observations whose
\* hikeId is h, each once and no other, the later timestamp first.
C20_ObservationsOfHikeByTimestamp ==
    last.op = "getObservationsByHikeId"
        => /\ {last.res[k] : k \in 1..Len(last.res)}
                = {RowToObservation(o) : o \in ObservationsOf(last.arg)}
           /\ Len(last.res) = Cardinality(ObservationsOf(last.arg))
           /\ \A i \in 1..Len(last.res) : \A j \in 1..Len(last.res) :
                i < j => Val(last.res[i].timestamp) >= Val(last.res[j].timestamp)

C20_Witness ==
    /\ last.op = "getObservationsByHikeId"
    /\ Len(last.res) = 2
    /\ Val(last.res[1].timestamp) > Val(last.res[2].timestamp)
    /\ last.res[1].id = Num(1)

(***************************************************************************)
(* Claims about saving a hike whose natural key is stored already, under   *)
(* the duplicate specification.                                            *)
(***************************************************************************)
\* a hike with the natural key of the hike given was stored before the step
KeyStored(hike) == \E r \in hikes : NaturalKeyEqual(r, hike)

\* C21: insertHike of a hike whose natural key is that of a stored hike
\* succeeds, adds exactly one row, under an id no stored row has, and leaves
\* every stored row as it was; findDuplicateHike changes nothing in the store.
C21_InsertHikeChecksNoDuplicate ==
    [][/\ (InsertHike(DupHikes) /\ KeyStored(last'.arg))
            => /\ last'.ok
               /\ hikes \subseteq hikes'
               /\ Cardinality(hikes' \ hikes) = 1
               /\ \A r \in hikes' \ hikes :
                    /\ Num(r.id) = last'.res
                    /\ \A q \in hikes : q.id # r.id
                    /\ NaturalKeyEqual(r, last'.arg)
               /\ observations' = observations
       /\ FindDuplicateHike(DupHikes) => UNCHANGED dbVars]_vars

C21_Witness ==
    /\ last.op = "insertHike" /\ last.ok
    /\ \E r \in hikes :
         /\ Num(r.id) # last.res
         /\ NaturalKeyEqual(r, last.arg)
         /\ r.description # OrNull(last.arg.description)

(***************************************************************************)
(* The retry specification: openDatabase is called again and again, each   *)
(* call after the one before it has returned or was rejected, and the open *)
(* or a schema statement may fail.                                         *)
(***************************************************************************)
Finished(c) == callPc[c] \in {"returned", "rejected"}

NextRetry ==
    \/ \E c \in Calls : (IF c = 1 THEN TRUE ELSE Finished(c - 1)) /\ OpenDatabase({c})
    \/ OpenDatabaseAsyncSettles

SpecRetry == InitOpen /\ [][NextRetry]_vars

\* call c was rejected by the failure of the open, or of a schema statement
OpenFailedFor(c) == callPc[c] = "rejected" /\ callRet[c] = OpenError
SchemaFailedFor(c) == callPc[c] = "rejected" /\ callRet[c] = SchemaError

\* the call is rejected with the error of the step that failed
RejectsWithTheError ==
    /\ dbPromise.st = "rejected" => \A c \in Calls : Finished(c) => OpenFailedFor(c)
    /\ \A c \in Calls :
         callPc[c] = "rejected" /\ dbPromise.st = "resolved"
            => SchemaFailedFor(c) /\ callStmts[c] < SchemaStatements

WrappedObjects ==
    {ExportJson(Stored(1, SavedHike), <<>>),
     ExportJson(Stored(1, EditedHike), <<StoredObservation(1, EditedObservation)>>)}

TextsBefore ==
    {<<>>, <<"Name: ", "a", "\n">>, <<"Name: ", "a", "{", "\n">>,
     <<"Name: ", "}", "a", "\n">>, <<"Name: ", "{", "a", "}", "\n">>}

TextsAfter ==
    {<<>>, <<"\n", "a">>, <<"\n", "}">>, <<"\n", "{">>, <<"\n", "{", "a", "}">>}

WrappedTexts ==
    {before \o object \o after :
        before \in TextsBefore, object \in WrappedObjects, after \in TextsAfter}

NextWrap ==
    \/ SetJsonText(WrappedTexts)
    \/ ParseImportJson

SpecWrap == Init /\ [][NextWrap]_vars

\* the braces opened and not closed between positions from and k of the text
Depth(text, from, k) ==
    Cardinality({i \in from..k : text[i] = "{"})
        - Cardinality({i \in from..k : text[i] = "}"})

\* the first balanced {...} block of the text: from its first "{" to the
\* first "}" that closes it; the text itself when it has no such block
FirstBalanced(text) ==
    LET opens == Positions(text, "{")
        ends == IF opens = {} THEN {}
                ELSE {k \in Min(opens)..Len(text) :
                        text[k] = "}" /\ Depth(text, Min(opens), k) = 0}
    IN  IF ends = {} THEN text ELSE SubSeq(text, Min(opens), Min(ends))

\* C23: what parseImportJson returns for a text is what it returns for the
\* first balanced {...} block of the text, also when the text before or
\* after the exported JSON object holds braces.
C23_ParsesFirstBalancedBlock ==
    exported.st = "decoded"
        => exported.decoded = parseImportJson(FirstBalanced(exported.text))

(***************************************************************************)
(* The notification specification: the screens save hikes and              *)
(* observations and notify the provider, which renders and refreshes.      *)
(***************************************************************************)
NextNotify ==
    \/ OpenDatabase({1})
    \/ OpenDatabaseAsyncSettles
    \/ MountEffects
    \/ TriggerEffect
    \/ RefreshReads
    \/ RefreshSetsHikes
    \/ HikesEffect
    \/ HandleSave({SavedHike})
    \/ HandleSaveObservation(SavedObservations)

SpecNotify == Init /\ [][NextNotify]_vars

\* C24: updateTrigger never decreases, and a call of notifyHikeChanged or of
\* notifyObservationChanged adds exactly one to it, also when the provider
\* has not rendered since the notification before.
C24_CounterGrowsByOne ==
    [][/\ updateTrigger' >= updateTrigger
       /\ (HandleSave({SavedHike}) /\ last'.ok) => updateTrigger' = updateTrigger + 1
       /\ (HandleSaveObservation(SavedObservations) /\ last'.ok)
            => updateTrigger' = updateTrigger + 1]_vars

\* two notifications, of a hike and of an observation, and no render since
C24_Witness ==
    /\ updateTrigger = 2
    /\ pendingEffects.rendered = 0
    /\ hikes # {} /\ observations # {}

(***************************************************************************)
(* The overlap specification: two importHikeFromJson calls are in          *)
(* progress at the same time.  No statement fails.                         *)
(***************************************************************************)
\* exports of one hike with and without a description, and of another hike
OverlapTexts ==
    {ExportedPlain,
     exportHikeToJson(Stored(1, SavedHike), <<>>),
     exportHikeToJson(Stored(1, EditedHike), <<>>)}
DecodedOverlapTexts == [text \in OverlapTexts |-> parseImportJson(text)]

InitOverlap ==
    /\ InitConn
    /\ hikes = {} /\ observations = {}
    /\ hikeSeq = 0 /\ obsSeq = 0
    /\ resetPc = "idle"
    /\ last = NoCall
    /\ imp = [i \in {1, 2} |-> ImportIdle]
    /\ exported = NoExport
    /\ updateTrigger = 0
    /\ contextHikes = <<>>
    /\ refreshes = <<>>
    /\ pendingEffects = [mount |-> TRUE, trigger |-> FALSE, hikes |-> FALSE, rendered |-> 0]
    /\ filteredHikes = <<>>
    /\ isImporting = FALSE
    /\ searchQuery = <<>>
    /\ searches = <<>>
    /\ bus = NoListeners
    /\ faults = 0

NextOverlap ==
    \/ OpenDatabase({1})
    \/ OpenDatabaseAsyncSettles
    \/ ImportHikeFromJson(DecodedOverlapTexts) /\ UNCHANGED uiVars

SpecOverlap == InitOverlap /\ [][NextOverlap]_vars

\* the two calls are over, each began when no hike with its natural key was
\* stored, and their texts decode to one natural key
OverlappedOnOneKey ==
    /\ \A i \in DOMAIN imp :
         imp[i].pc = "done" /\ imp[i].data # Undef /\ ~DuplicateBefore(imp[i])
    /\ \A key \in {"name", "location", "date", "parkingAvailable", "lengthKm", "difficulty"} :
         Get(imp[1].data, key) = Get(imp[2].data, key)

\* C25: when two importHikeFromJson calls whose texts decode to the same
\* natural key overlap, no hike with that key being stored before, at most
\* one hike with that key is stored once both are over.
C25_OverlappingImportsInsertOnce ==
    OverlappedOnOneKey
        => Cardinality({r \in hikes : SameNaturalKey(r, imp[1].data)}) <= 1

(***************************************************************************)
(* The startup specification: the root layout calls initializeDatabase     *)
(* (call 1) while the provider's refreshes call getAllHikes (the other     *)
(* calls); the open or a schema statement may fail.                        *)
(***************************************************************************)
\* DataContext.tsx line 30, part_006 lines 100-105: the SELECT of a
\* getAllHikes whose openDatabase call has returned
StartupGetAllHikes ==
    \E c \in Calls \ {1} :
        /\ callPc[c] = "returned"
        /\ Query("getAllHikes", Num(c), getAllHikes(DB))

NextStartup ==
    \/ OpenDatabase(Calls)
    \/ OpenDatabaseAsyncSettles
    \/ StartupGetAllHikes

SpecStartup == InitOpen /\ [][NextStartup]_vars

\* some call has run the four schema statements, none failing
SchemaCompleted == \E e \in Calls : callStmts[e] = SchemaStatements

\* C26: an openDatabase call returns, and the repository operation that
\* made it runs its statement, only when an ensureSchema of this process has
\* run all its statements with success, however the calls interleave.
C26_NoStatementBeforeSchema ==
    /\ \A c \in Calls : callPc[c] \in {"return", "returned"} => SchemaCompleted
    /\ last.op = "getAllHikes" => SchemaCompleted

\* the refresh has read the store after its own ensureSchema, the
\* ensureSchema of initializeDatabase being still under way
C26_Witness ==
    /\ last.op = "getAllHikes"
    /\ callPc[1] = "schema" /\ callStmts[1] > 0
    /\ callStmts[2] = SchemaStatements

(***************************************************************************)
(* Searches of the list screen that overlap.                               *)
(***************************************************************************)
TypedQueries == {<<"a">>, <<"b">>, <<>>, <<" ">>}

TypedHikes == {Hike(<<"a">>, <<"b">>, <<"1">>, TRUE, 7, Hard)}

NextTyping ==
    \/ OpenDatabase({1})
    \/ OpenDatabaseAsyncSettles
    \/ MountEffects
    \/ TriggerEffect
    \/ RefreshReads
    \/ RefreshSetsHikes
    \/ HikesEffect
    \/ HandleSave(TypedHikes)
    \/ HandleSearch(TypedQueries)
    \/ SearchReads
    \/ SearchSetsFiltered

SpecTyping == Init /\ [][NextTyping]_vars

\* what handleSearch(query) displays when nothing else runs
DisplayedFor(query) ==
    IF Blank(query) THEN {contextHikes} ELSE searchHikes(DB, Str(query))

\* C27: when the searches started by handleSearch have all resolved and
\* nothing else is in progress, the list displayed is the result for the
\* query of the last handleSearch call.
C27_LastSearchIsDisplayed ==
    (Settled /\ searches = <<>>) => filteredHikes \in DisplayedFor(searchQuery)

(***************************************************************************)
(* Hikes are saved and read back by the id insertHike returned.            *)
(***************************************************************************)
\* a hike whose optional numbers are all zero and whose calendar flag is absent
ZeroHike ==
    [Hike(<<"a">>, <<"b">>, <<"1">>, TRUE, 7, Hard) EXCEPT
        !.elevationGainM = Num(0), !.rating = Num(0),
        !.latitude = Num(0), !.longitude = Num(0)]

NextSaved ==
    \/ OpenDatabase({1})
    \/ OpenDatabaseAsyncSettles
    \/ InsertHike({SavedHike, FullHike, ZeroHike})
    \/ GetHikeById

SpecSaved == Init /\ [][NextSaved]_vars

\* C28: getHikeById(id) right after insertHike(h) returned id gives a hike
\* equal to h in every field, zero-valued optional numbers included, with
\* addedToCalendar false when h has none.
C28_InsertThenGetReturnsRecord ==
    [][(/\ last.op = "insertHike" /\ last.ok
        /\ GetHikeById
        /\ last'.arg = last.res)
           => /\ last'.res # Null
              /\ SameHike(last'.res[2], [last.arg EXCEPT !.id = last.res])]_vars

(***************************************************************************)
(* Hikes are saved and removed, one by one or all at once.                 *)
(***************************************************************************)
NextIds ==
    \/ OpenDatabase({1})
    \/ OpenDatabaseAsyncSettles
    \/ InsertHike({SavedHike})
    \/ DeleteHike
    \/ DeleteAllHikesFirst
    \/ DeleteAllHikesSecond

SpecIds == Init /\ [][NextIds]_vars

\* C29: the id insertHike returns differs from every hike id stored now or
\* earlier, removed hikes included: the sequence of table hikes never goes
\* down, no stored id is above it, and a successful insertHike returns an id
\* above the sequence of before and stores the hike under it.
C29_InsertedIdIsFresh ==
    [][/\ hikeSeq' >= hikeSeq
       /\ \A r \in hikes' : r.id <= hikeSeq'
       /\ (InsertHike({SavedHike}) /\ last'.ok)
            => /\ Val(last'.res) > hikeSeq
               /\ Val(last'.res) = hikeSeq'
               /\ \A r \in hikes : Num(r.id) # last'.res
               /\ \E r \in hikes' : Num(r.id) = last'.res]_vars

\* insertHike returned an id after every hike stored before it was removed
C29_Witness ==
    /\ last.op = "insertHike" /\ last.ok
    /\ hikeSeq > 1
    /\ hikes # {}
    /\ \A r \in hikes : Num(r.id) = last.res

(***************************************************************************)
(* The bus specification: listeners subscribe and unsubscribe, and the map *)
(* picker confirms locations.                                              *)
(***************************************************************************)
Selections == {<<1, 2>>, <<0, 3>>}

NextBus ==
    \/ On(Listeners)
    \/ Off
    \/ HandleConfirm(Selections)

SpecBus == Init /\ [][NextBus]_vars

\* the listeners the Set holds
Subscribed(b) == {b.listeners[k] : k \in 1..Len(b.listeners)}

\* how many times emit called listener l with payload
Deliveries(b, l, payload) ==
    Cardinality({k \in 1..Len(b.calls) : b.calls[k] = <<l, payload>>})

\* C30: an emit calls every listener subscribed when it starts exactly once
\* with the payload, whatever the listeners called before it threw or
\* unsubscribed, and calls no other listener and passes no other payload.
C30_EmitDeliversOnceToEachSubscriber ==
    [][HandleConfirm(Selections) =>
        \E sel \in Selections :
            LET payload == Location(<<"a">>, sel[1], sel[2])
            IN  /\ \A l \in Listeners :
                     Deliveries(bus', l, payload) = IF l \in Subscribed(bus) THEN 1 ELSE 0
                /\ Len(bus'.calls) = Cardinality(Subscribed(bus))]_vars

\* the last emit called a listener that threw and then a listener that
\* unsubscribed the others, and called the screens' listeners after them;
\* a listener that was not subscribed was not called
C30_Witness ==
    /\ Len(bus.calls) = 4
    /\ bus.calls[1][1] = "throws" /\ bus.calls[2][1] = "offAll"
    /\ bus.calls[3][1] = "hikeForm" /\ bus.calls[4][1] = "confirm"
    /\ bus.listeners = <<>>
    /\ bus.warned = <<"throws">>


====
